---- MODULE Spec2Model ----
(***************************************************************************)
(* The event pipeline of BangaloreNow: output_enhancer.py (Normalizer),    *)
(* consolidate_events.py (Consolidator) and load_to_supabase.py (Loader),  *)
(* run in that order by run_pipeline.py, writing to the public.events      *)
(* table whose url column carries the unique index events_url_uidx.        *)
(***************************************************************************)
EXTENDS Integers, Sequences, FiniteSets, TLC

VARIABLES
  raw,          \* data/*.json: the collectors' records, in file order
  cleaned,      \* cleaned_data/*_cleaned.json: the Normalizer's output
  master,       \* cleaned_data/events_master.json: the Consolidator's output
  stage,        \* position of run_pipeline.py
  run,          \* number of the current pipeline run
  pos,          \* Loader: index of the MasterRecord being loaded
  step,         \* Loader: "geocode" or "upsert" for the record at pos
  attempts,     \* Loader: geocode calls made for the record at pos
  coords,       \* Loader: coordinates resolved for the record at pos
  cache,        \* Loader: address -> coordinates, per run
  store,        \* public.events: the set of rows
  nextId,       \* public.events: the bigserial sequence of id
  outcome,      \* Loader: outcome of each MasterRecord processed so far
  summary,      \* Loader: the {inserted, updated, skipped, failed} counts
  geoLog,       \* history: per MasterRecord, the results of its geocode calls
  prevStore,    \* history: the store when the current run started
  prevLoaded,   \* history: urls whose MasterRecord the previous run loaded
  changed       \* history: index of the raw record edited before this run, or 0

\* the map frontend (MapStateProvider.jsx)
VARIABLES
  selectedEventId,    \* useState(null): id of the event whose popup is open
  eventDetailsCache,  \* useState({}): event id -> details fetched for it
  isLoadingDetails,   \* useState(false)
  inFlight,           \* get-event-details requests awaiting their response, per event id
  lastResponse        \* history: the last response handled, <<event id, "ok" or "failed">>

\* the navbar animation of the map page (MapComponent.jsx)
VARIABLES
  isMapMoving,         \* useState(false): the navbar is minimized
  navTimers,           \* the pending setTimeout timers of MapComponent
  minimizeTimeoutRef,  \* useRef(null)
  expandTimeoutRef,    \* useRef(null)
  fallbackTimeoutRef,  \* useRef(null)
  lastMapEvent         \* history: the last map event or timer handled

\* the events, the filters and the map bounds of the page (MapStateProvider
\* with filters, and MapContent of OptimizedMapComponent)
VARIABLES
  events,               \* useState([]): the events of get-all-events
  filteredEvents,       \* useState([]): the events of the last search
  activeFilters,        \* useState(null): the filters of the last search
  isLoadingEvents,      \* useState(true)
  eventsRequests,       \* get-all-events requests awaiting their response
  searchRequests,       \* filters of the search requests awaiting their response
  mapView,              \* map.getBounds(): what the map shows
  hasInitialLoadRef,    \* useRef(false)
  mapBoundsRef,         \* useRef(null)
  lastRefreshBoundsRef, \* useRef(null)
  viewTimers,           \* the pending setTimeout timers of the page
  debounceTimeoutRef,   \* useRef(null), MapStateProvider
  dragTimeoutRef,       \* useRef(null), MapContent
  zoomTimeoutRef        \* useRef(null), MapContent

viewVars ==
  <<events, filteredEvents, activeFilters, isLoadingEvents, eventsRequests,
    searchRequests, mapView, hasInitialLoadRef, mapBoundsRef,
    lastRefreshBoundsRef, viewTimers, debounceTimeoutRef, dragTimeoutRef,
    zoomTimeoutRef>>

detailsVars == <<selectedEventId, eventDetailsCache, isLoadingDetails, inFlight, lastResponse>>

navVars ==
  <<isMapMoving, navTimers, minimizeTimeoutRef, expandTimeoutRef,
    fallbackTimeoutRef, lastMapEvent>>

\* the state of the page outside the details popup
pageVars == <<navVars, viewVars>>

mapVars == <<detailsVars, pageVars>>

pipelineVars ==
  <<raw, cleaned, master, stage, run, pos, step, attempts, coords, cache,
    store, nextId, outcome, summary, geoLog, prevStore, prevLoaded, changed>>

vars == <<pipelineVars, mapVars>>

(***************************************************************************)
(* Bounds of the model: records per Consolidator input (SpecCons), raw     *)
(* records per pipeline run and pipeline runs (Spec).                      *)
(***************************************************************************)
MaxInput == 2
MaxScraped == 2
MaxRuns == 2

(***************************************************************************)
(* Records.                                                                *)
(***************************************************************************)
NULL == "null"
NoKey == <<>>

Sources == {"allevents.in", "eventbrite"}
Urls == {"u1", "u2"}
Names == {"n1", "n2"}
\* Composed venue/address strings, by the confidence the Normalizer gives them.
StrongAddrs == {"12 MG Road 560034", "100 Park Street"}
WeakAddrs == {"Bangalore Tech Hub"}
CityOnly == {"Bangalore"}
\* a venue string the geocoder has no result for
Unresolvable == {"Secret Venue"}
Stamps == {1, 2}

RawRecord(src, sid, url, name, addr, upd) ==
  [source |-> src, source_id |-> sid, event_url |-> url, event_name |-> name,
   venue_address |-> addr, last_updated |-> upd]

(***************************************************************************)
(* Normalizer (output_enhancer.py).                                        *)
(***************************************************************************)
\* address_confidence of a composed address string
AddressConfidence(addr) ==
  IF addr \in StrongAddrs THEN "high"
  ELSE IF addr \in WeakAddrs THEN "medium"
  ELSE "low"

\* event_key is source:source_id
EventKey(r) ==
  IF r.source_id = NULL THEN NoKey ELSE <<r.source, r.source_id>>

NormalizeRecord(r) ==
  [event_key |-> EventKey(r),
   event_url |-> r.event_url,
   source |-> r.source,
   event_name |-> r.event_name,
   resolved_venue_address |-> r.venue_address,
   address_confidence |-> AddressConfidence(r.venue_address),
   last_updated |-> r.last_updated]

NormalizeAll(rs) == [i \in 1..Len(rs) |-> NormalizeRecord(rs[i])]

(***************************************************************************)
(* output_enhancer.py on the raw text: venue address resolution. A text is *)
(* the sequence of its words ("," is a word); the empty sequence is a      *)
(* missing or empty value.                                                 *)
(***************************************************************************)
NoText == <<>>

\* str.lower() of a word
Lower(w) ==
  CASE w = "TBA" -> "tba"
    [] w = "N/A" -> "n/a"
    [] w = "Venue" -> "venue"
    [] w = "Online" -> "online"
    [] w = "Learn" -> "learn"
    [] w = "Workshop" -> "workshop"
    [] w = "Road" -> "road"
    [] w = "Layout" -> "layout"
    [] w = "Bangalore" -> "bangalore"
    [] OTHER -> w

LowerText(t) == [i \in 1..Len(t) |-> Lower(t[i])]

\* invalid placeholders
PlaceholderLexicon ==
  {<<"venue">>, <<"tba">>, <<"to", "be", "announced">>, <<"n/a">>, <<"online">>, NoText}

\* marketing jargon, often a misclassified venue name
JargonWords == {"learn", "discover", "workshop", "training"}

\* longer strings are likely to be descriptions
MaxVenueChars == 80

\* len() of a text: its words, one blank between two words, none before ","
RECURSIVE TextChars(_)
TextChars(t) ==
  IF t = <<>> THEN 0
  ELSE Len(Head(t)) + (IF Len(t) > 1 /\ t[2] # "," THEN 1 ELSE 0) + TextChars(Tail(t))

\* faulty variant: marketing jargon is accepted as a venue name
IsValidVenueNoJargon(v) ==
  /\ LowerText(v) \notin PlaceholderLexicon
  /\ TextChars(v) <= MaxVenueChars

\* a valid venue candidate, as opposed to a placeholder
IsValidVenue(v) ==
  /\ LowerText(v) \notin PlaceholderLexicon
  /\ TextChars(v) <= MaxVenueChars
  /\ \A i \in 1..Len(v) : Lower(v[i]) \notin JargonWords

\* address signals: words holding 3+ consecutive digits, Bangalore postal
\* codes (560xxx), common location words
StreetNumbers == {"123", "1200", "560034", "560001"}
PostalCodes == {"560034", "560001"}
LocationWords ==
  {"road", "street", "nagar", "layout", "mall", "campus", "auditorium", "park"}

HasStrongSignal(t) == \E i \in 1..Len(t) : t[i] \in StreetNumbers \cup PostalCodes

HasLocationWord(t) == \E i \in 1..Len(t) : Lower(t[i]) \in LocationWords

HasAddressSignal(t) == HasStrongSignal(t) \/ HasLocationWord(t)

SameText(a, b) == LowerText(a) = LowerText(b)

\* t ends with the words of p
EndsWith(t, p) ==
  /\ Len(p) <= Len(t)
  /\ SameText(SubSeq(t, Len(t) - Len(p) + 1, Len(t)), p)

\* faulty variant: a part is appended even when the text already ends with it
AppendPartAlways(t, p) ==
  IF p = NoText THEN t
  ELSE IF t = NoText THEN p
  ELSE t \o <<",">> \o p

\* join the part p to the text t, each part present only once
AppendPart(t, p) ==
  IF p = NoText \/ EndsWith(t, p) THEN t
  ELSE IF t = NoText THEN p
  ELSE t \o <<",">> \o p

\* venue_name + venue_address + city, the venue only when it is a valid one
ComposeAddress(venue, address, city) ==
  AppendPart(AppendPart(IF IsValidVenue(venue) THEN venue ELSE NoText, address), city)

\* faulty variant: without an address signal the confidence is left unset
ScoreConfidenceUnset(venue, composed, city) ==
  IF HasAddressSignal(composed) THEN "high" ELSE NULL

\* faulty variant: a location word alone is a partial signal
ScoreConfidenceStrongOnly(venue, composed, city) ==
  IF HasStrongSignal(composed) THEN "high"
  ELSE IF HasLocationWord(composed) THEN "medium"
  ELSE "low"

\* high: street, building or postal information; medium: a venue but no such
\* information; low: only the city name or an unclear venue
ScoreConfidence(venue, composed, city) ==
  IF HasAddressSignal(composed) THEN "high"
  ELSE IF IsValidVenue(venue) /\ ~SameText(composed, city) THEN "medium"
  ELSE "low"

(***************************************************************************)
(* output_enhancer.py: time normalization. A time string is the sequence   *)
(* of its characters; the result is an "HH:MM" string or NULL.             *)
(***************************************************************************)
Digits == {"0", "1", "2", "3", "4", "5", "6", "7", "8", "9"}

DigitValue(c) ==
  CASE c = "0" -> 0 [] c = "1" -> 1 [] c = "2" -> 2 [] c = "3" -> 3 [] c = "4" -> 4
    [] c = "5" -> 5 [] c = "6" -> 6 [] c = "7" -> 7 [] c = "8" -> 8 [] c = "9" -> 9

DigitChar(d) ==
  CASE d = 0 -> "0" [] d = 1 -> "1" [] d = 2 -> "2" [] d = 3 -> "3" [] d = 4 -> "4"
    [] d = 5 -> "5" [] d = 6 -> "6" [] d = 7 -> "7" [] d = 8 -> "8" [] d = 9 -> "9"

\* str.lower() of a character
LowerChar(c) ==
  CASE c = "A" -> "a" [] c = "P" -> "p" [] c = "M" -> "m" [] c = "O" -> "o" [] OTHER -> c

LowerChars(s) == [i \in 1..Len(s) |-> LowerChar(s[i])]

\* str.strip()
RECURSIVE StripLeft(_)
StripLeft(s) == IF s # <<>> /\ Head(s) = " " THEN StripLeft(Tail(s)) ELSE s

RECURSIVE StripRight(_)
StripRight(s) ==
  IF s # <<>> /\ s[Len(s)] = " " THEN StripRight(SubSeq(s, 1, Len(s) - 1)) ELSE s

Strip(s) == StripRight(StripLeft(s))

HasSuffix(s, f) == Len(f) <= Len(s) /\ SubSeq(s, Len(s) - Len(f) + 1, Len(s)) = f

DropSuffix(s, f) == Strip(SubSeq(s, 1, Len(s) - Len(f)))

\* common suffixes that are stripped
Onwards == <<"o", "n", "w", "a", "r", "d", "s">>

\* faulty variant: the suffix is left in place
StripFillerKeep(s) == s

StripFiller(s) == IF HasSuffix(s, Onwards) THEN DropSuffix(s, Onwards) ELSE s

AM == <<"a", "m">>
PM == <<"p", "m">>

\* the am/pm marker at the end of s, or NULL
Meridiem(s) == IF HasSuffix(s, AM) THEN "am" ELSE IF HasSuffix(s, PM) THEN "pm" ELSE NULL

\* s without its am/pm marker
Clock(s) == IF Meridiem(s) = NULL THEN s ELSE DropSuffix(s, AM)

\* the clock is H, HH, H:MM or HH:MM
WellFormedClock(c) ==
  \/ Len(c) \in {1, 2} /\ \A i \in 1..Len(c) : c[i] \in Digits
  \/ /\ Len(c) \in {4, 5}
     /\ c[Len(c) - 2] = ":"
     /\ \A i \in (1..Len(c)) \ {Len(c) - 2} : c[i] \in Digits

HourDigits(c) == IF Len(c) \in {1, 4} THEN 1 ELSE 2

ClockHour(c) ==
  IF HourDigits(c) = 1 THEN DigitValue(c[1]) ELSE 10 * DigitValue(c[1]) + DigitValue(c[2])

ClockMinute(c) ==
  IF Len(c) \in {1, 2} THEN 0
  ELSE 10 * DigitValue(c[Len(c) - 1]) + DigitValue(c[Len(c)])

\* faulty variant: pm does not move the hour to the afternoon
To24HourNoShift(h, mer) == h

\* the hour on the 24-hour clock
To24Hour(h, mer) ==
  IF mer = "pm" /\ h # 12 THEN h + 12
  ELSE IF mer = "am" /\ h = 12 THEN 0
  ELSE h

\* faulty variant: a one-digit number is not padded
Pad2Short(n) == IF n < 10 THEN DigitChar(n) ELSE DigitChar(n \div 10) \o DigitChar(n % 10)

Pad2(n) == DigitChar(n \div 10) \o DigitChar(n % 10)

FormatTime(h, m) == Pad2(h) \o ":" \o Pad2(m)

NormalizeTime(s) ==
  LET t == StripFiller(Strip(LowerChars(s)))
      mer == Meridiem(t)
      c == Clock(t)
  IN IF ~WellFormedClock(c) THEN NULL
     ELSE IF ClockMinute(c) > 59 THEN NULL
     ELSE IF mer # NULL /\ ClockHour(c) \notin 1..12 THEN NULL
     ELSE IF mer = NULL /\ ClockHour(c) > 23 THEN NULL
     ELSE FormatTime(To24Hour(ClockHour(c), mer), ClockMinute(c))

\* one raw event as the collectors write it
RawEvent(venue, address, city, time) ==
  [venue_name |-> venue, venue_address |-> address, city |-> city, start_time |-> time]

\* the enhanced record: the raw fields kept, the output fields added
EnhanceRecord(r) ==
  LET composed == ComposeAddress(r.venue_name, r.venue_address, r.city)
  IN [venue_name |-> r.venue_name,
      venue_address |-> r.venue_address,
      city |-> r.city,
      start_time |-> NormalizeTime(r.start_time),
      resolved_venue_address |-> composed,
      address_confidence |-> ScoreConfidence(r.venue_name, composed, r.city)]

EnhanceAll(rs) == [i \in 1..Len(rs) |-> EnhanceRecord(rs[i])]

(***************************************************************************)
(* Consolidator (consolidate_events.py).                                   *)
(***************************************************************************)
ConfidenceRank(c) == IF c = "high" THEN 3 ELSE IF c = "medium" THEN 2 ELSE 1

NullableFields == {"event_name", "resolved_venue_address"}

\* number of non-null fields
Completeness(r) == Cardinality({f \in NullableFields : r[f] # NULL})

\* faulty variant: the record already held always wins
GeneralWinnerHeld(a, b) == a

\* general tie-break: the more complete record, then the later last_updated;
\* a full tie keeps the record already held
GeneralWinner(a, b) ==
  IF Completeness(a) > Completeness(b) THEN a
  ELSE IF Completeness(a) < Completeness(b) THEN b
  ELSE IF a.last_updated > b.last_updated THEN a
  ELSE IF a.last_updated < b.last_updated THEN b
  ELSE a

\* faulty variant: address_confidence is ignored
AddressWinnerNoConfidence(a, b) == GeneralWinner(a, b)

\* address-derived fields: the higher address_confidence first
AddressWinner(a, b) ==
  IF ConfidenceRank(a.address_confidence) > ConfidenceRank(b.address_confidence) THEN a
  ELSE IF ConfidenceRank(a.address_confidence) < ConfidenceRank(b.address_confidence) THEN b
  ELSE GeneralWinner(a, b)

\* prefer the non-null value; on conflict the winner's
PickField(f, a, b, w) ==
  IF a[f] = NULL THEN b[f] ELSE IF b[f] = NULL THEN a[f] ELSE w[f]

\* a: the record already held for the anchor, b: the incoming record
MergeRecords(a, b) ==
  LET g == GeneralWinner(a, b)
      w == AddressWinner(a, b)
  IN [event_key |-> g.event_key,
      event_url |-> g.event_url,
      source |-> g.source,
      event_name |-> PickField("event_name", a, b, g),
      resolved_venue_address |-> PickField("resolved_venue_address", a, b, w),
      address_confidence |-> w.address_confidence,
      last_updated |-> g.last_updated]

\* records without a resolvable event_key are dropped
Resolvable(rs) == SelectSeq(rs, LAMBDA r : r.event_key # NoKey)

\* faulty variant: no record is ever found for an anchor
FindAnchorNone(acc, f, v, i) == 0

\* index of the record held for the anchor value v, or 0
RECURSIVE FindAnchor(_, _, _, _)
FindAnchor(acc, f, v, i) ==
  IF i > Len(acc) THEN 0
  ELSE IF acc[i][f] = v THEN i
  ELSE FindAnchor(acc, f, v, i + 1)

\* one pass over rs in order, collapsing records that share the anchor f
RECURSIVE DedupBy(_, _, _)
DedupBy(f, rs, acc) ==
  IF rs = <<>> THEN acc
  ELSE LET r == Head(rs)
           j == FindAnchor(acc, f, r[f], 1)
       IN DedupBy(f, Tail(rs),
                  IF j = 0 THEN Append(acc, r)
                  ELSE [acc EXCEPT ![j] = MergeRecords(acc[j], r)])

\* faulty variant: only the event_key pass
ConsolidateKeyOnly(rs) == DedupBy("event_key", Resolvable(rs), <<>>)

\* event_key first, event_url as the final global anchor
Consolidate(rs) ==
  DedupBy("event_url", DedupBy("event_key", Resolvable(rs), <<>>), <<>>)

(***************************************************************************)
(* The store: public.events with the unique index events_url_uidx.         *)
(***************************************************************************)
RowsWithUrl(rows, url) == {x \in rows : x.url = url}

\* columns written from a MasterRecord and its coordinates
StoredFields(m, c) ==
  [url |-> m.event_url, name |-> m.event_name,
   address |-> m.resolved_venue_address, lat |-> c[1], long |-> c[2]]

WithId(id, f) ==
  [id |-> id, url |-> f.url, name |-> f.name, address |-> f.address,
   lat |-> f.lat, long |-> f.long]

\* faulty variant: the columns are nullable
SatisfiesNotNullAny(f) == TRUE

\* name is "not null" (lat and long are always supplied by the geocode step)
SatisfiesNotNull(f) == f.name # NULL

\* faulty variant: every upsert inserts
UpsertRowsAlwaysInsert(rows, id, f) == rows \cup {WithId(id, f)}

\* faulty variant: an existing row is deleted and inserted again under the next id
UpsertRowsReplace(rows, id, f) ==
  (rows \ RowsWithUrl(rows, f.url)) \cup {WithId(id, f)}

\* faulty variant: the update has no "where url = ..." and rewrites every row
UpsertRowsUpdateAll(rows, id, f) ==
  IF RowsWithUrl(rows, f.url) # {}
  THEN {WithId(x.id, [f EXCEPT !.url = x.url]) : x \in rows}
  ELSE rows \cup {WithId(id, f)}

\* upsert on conflict (url): update the non-key columns of the existing row,
\* otherwise insert a row with the next id
UpsertRows(rows, id, f) ==
  IF RowsWithUrl(rows, f.url) # {}
  THEN {IF x.url = f.url THEN WithId(x.id, f) ELSE x : x \in rows}
  ELSE rows \cup {WithId(id, f)}

(***************************************************************************)
(* The geocoding collaborator.                                             *)
(***************************************************************************)
GeoCoord(addr) ==
  IF addr \in StrongAddrs THEN <<12, 77>>
  ELSE IF addr \in WeakAddrs THEN <<13, 77>>
  ELSE <<13, 78>>

\* addresses the geocoder answers; any other is a permanent failure
Geocodable(addr) == addr # NULL /\ addr \notin Unresolvable

\* retries after the first call of a record
MaxRetries == 2

(***************************************************************************)
(* Loader (load_to_supabase.py).                                           *)
(***************************************************************************)
NoCoords == <<>>
EmptyCache == [a \in {} |-> NoCoords]
ZeroSummary == [inserted |-> 0, updated |-> 0, skipped |-> 0, failed |-> 0]

\* faulty variant: skipped records are not counted
CountNoSkipped(sm, o) == IF o = "skipped" THEN sm ELSE [sm EXCEPT ![o] = @ + 1]

Count(sm, o) == [sm EXCEPT ![o] = @ + 1]

Current == master[pos]

Loading == stage = "loading" /\ pos <= Len(master)

\* the record at pos is finished with outcome o
Finish(o) ==
  /\ outcome' = Append(outcome, o)
  /\ summary' = Count(summary, o)
  /\ pos' = pos + 1
  /\ step' = "geocode"
  /\ attempts' = 0
  /\ coords' = NoCoords

\* faulty variant: the cache of the previous run is kept
StartLoadKeepsCache ==
  /\ stage = "consolidated"
  /\ stage' = "loading"
  /\ pos' = 1
  /\ step' = "geocode"
  /\ attempts' = 0
  /\ coords' = NoCoords
  /\ outcome' = <<>>
  /\ summary' = ZeroSummary
  /\ geoLog' = <<>>
  /\ UNCHANGED <<mapVars, raw, cleaned, master, run, cache, store, nextId, prevStore, prevLoaded, changed>>

StartLoad ==
  /\ stage = "consolidated"
  /\ stage' = "loading"
  /\ pos' = 1
  /\ step' = "geocode"
  /\ attempts' = 0
  /\ coords' = NoCoords
  /\ cache' = EmptyCache
  /\ outcome' = <<>>
  /\ summary' = ZeroSummary
  /\ geoLog' = <<>>
  /\ UNCHANGED <<mapVars, raw, cleaned, master, run, store, nextId, prevStore, prevLoaded, changed>>

CacheHit ==
  /\ Loading /\ step = "geocode"
  /\ Current.resolved_venue_address \in DOMAIN cache
  /\ coords' = cache[Current.resolved_venue_address]
  /\ step' = "upsert"
  /\ geoLog' = <<>>
  /\ UNCHANGED <<mapVars, raw, cleaned, master, stage, run, pos, attempts, cache, store, nextId,
                 outcome, summary, prevStore, prevLoaded, changed>>

GeocodeOk ==
  /\ Loading /\ step = "geocode"
  /\ Current.resolved_venue_address \notin DOMAIN cache
  /\ Geocodable(Current.resolved_venue_address)
  /\ coords' = GeoCoord(Current.resolved_venue_address)
  /\ cache' = [a \in DOMAIN cache \cup {Current.resolved_venue_address} |->
                 IF a = Current.resolved_venue_address
                 THEN GeoCoord(a) ELSE cache[a]]
  /\ attempts' = attempts + 1
  /\ step' = "upsert"
  /\ geoLog' = Append(IF attempts = 0 THEN <<>> ELSE geoLog, "ok")
  /\ UNCHANGED <<mapVars, raw, cleaned, master, stage, run, pos, store, nextId,
                 outcome, summary, prevStore, prevLoaded, changed>>

\* faulty variant: a transient failure is retried without limit
GiveUpNever(n) == FALSE

\* timeout, 5xx, rate limit: retried while attempts remain, then skipped
GiveUp(n) == n > MaxRetries

GeocodeTransient ==
  /\ Loading /\ step = "geocode"
  /\ Current.resolved_venue_address \notin DOMAIN cache
  /\ Current.resolved_venue_address # NULL
  /\ geoLog' = Append(IF attempts = 0 THEN <<>> ELSE geoLog, "transient")
  /\ IF GiveUp(attempts + 1)
     THEN Finish("skipped")
     ELSE /\ attempts' = attempts + 1
          /\ UNCHANGED <<pos, step, coords, outcome, summary>>
  /\ UNCHANGED <<mapVars, raw, cleaned, master, stage, run, cache, store, nextId,
                 prevStore, prevLoaded, changed>>

\* malformed address, 4xx, no result: skipped without a retry
GeocodePermanent ==
  /\ Loading /\ step = "geocode"
  /\ Current.resolved_venue_address \notin DOMAIN cache
  /\ ~Geocodable(Current.resolved_venue_address)
  /\ geoLog' = Append(IF attempts = 0 THEN <<>> ELSE geoLog, "permanent")
  /\ Finish("skipped")
  /\ UNCHANGED <<mapVars, raw, cleaned, master, stage, run, cache, store, nextId,
                 prevStore, prevLoaded, changed>>

UpsertOk ==
  /\ Loading /\ step = "upsert"
  /\ SatisfiesNotNull(StoredFields(Current, coords))
  /\ store' = UpsertRows(store, nextId, StoredFields(Current, coords))
  /\ nextId' = IF RowsWithUrl(store, Current.event_url) = {} THEN nextId + 1 ELSE nextId
  /\ Finish(IF RowsWithUrl(store, Current.event_url) = {} THEN "inserted" ELSE "updated")
  /\ UNCHANGED <<mapVars, raw, cleaned, master, stage, run, cache, geoLog,
                 prevStore, prevLoaded, changed>>

\* faulty variant: the first failed write ends the run
UpsertFailAborts ==
  /\ Loading /\ step = "upsert"
  /\ stage' = "done"
  /\ UNCHANGED <<mapVars, raw, cleaned, master, run, pos, step, attempts, coords, cache, store,
                 nextId, outcome, summary, geoLog, prevStore, prevLoaded, changed>>

\* the write is rejected ("not null" violation) or the store is unreachable
UpsertFail ==
  /\ Loading /\ step = "upsert"
  /\ Finish("failed")
  /\ stage' = stage
  /\ UNCHANGED <<mapVars, raw, cleaned, master, run, cache, store, nextId, geoLog,
                 prevStore, prevLoaded, changed>>

FinishLoad ==
  /\ stage = "loading" /\ pos > Len(master)
  /\ stage' = "done"
  /\ geoLog' = <<>>
  /\ UNCHANGED <<mapVars, raw, cleaned, master, run, pos, step, attempts, coords, cache, store,
                 nextId, outcome, summary, prevStore, prevLoaded, changed>>

LoaderStep ==
  \/ StartLoad
  \/ CacheHit
  \/ GeocodeOk
  \/ GeocodeTransient
  \/ GeocodePermanent
  \/ UpsertOk
  \/ UpsertFail
  \/ FinishLoad

(***************************************************************************)
(* The map frontend: MapStateProvider.jsx and the popup it feeds           *)
(* (MarkerInfoWindow). A handler runs to its first pending await in one    *)
(* step; the rest of fetchEventDetails runs when the response arrives.     *)
(***************************************************************************)
\* events on the map; get-event-details requests in flight at one time
MaxEvents == 3
MaxPending == 2

EventIds == 1..MaxEvents

\* selectedEventId is null
NoSelection == 0

\* the body of a successful get-event-details response
Details(e) == <<"details", e>>

\* selectedEventDetails is null
NoDetails == <<>>

NoResponse == <<>>

EmptyDetailsCache == [e \in {} |-> NoDetails]

InitMap ==
  /\ selectedEventId = NoSelection
  /\ eventDetailsCache = EmptyDetailsCache
  /\ isLoadingDetails = FALSE
  /\ inFlight = [e \in EventIds |-> 0]
  /\ lastResponse = NoResponse

\* eventDetailsCache[eventId] is truthy
Cached(e) == e \in DOMAIN eventDetailsCache

RECURSIVE SumUpTo(_, _)
SumUpTo(f, n) == IF n = 0 THEN 0 ELSE f[n] + SumUpTo(f, n - 1)

\* number of requests awaiting their response
Pending == SumUpTo(inFlight, MaxEvents)

\* faulty variant: the details of the last response, whatever is selected
selectedEventDetailsOfLast ==
  IF /\ selectedEventId # NoSelection
     /\ lastResponse # NoResponse
     /\ lastResponse[2] = "ok"
  THEN Details(lastResponse[1])
  ELSE NoDetails

\* value.selectedEventDetails
selectedEventDetails ==
  IF selectedEventId # NoSelection /\ Cached(selectedEventId)
  THEN eventDetailsCache[selectedEventId]
  ELSE NoDetails

\* what MarkerInfoWindow renders for isLoading and event
PopupContent ==
  IF isLoadingDetails /\ selectedEventDetails = NoDetails THEN "loading"
  ELSE IF selectedEventDetails # NoDetails THEN "details"
  ELSE "failed"

\* faulty variant: fetchEventDetails does not look into the cache
MarkerClickAlwaysFetch(e) ==
  /\ selectedEventId' = e
  /\ isLoadingDetails' = TRUE
  /\ Pending < MaxPending
  /\ inFlight' = [inFlight EXCEPT ![e] = @ + 1]
  /\ UNCHANGED <<eventDetailsCache, lastResponse>>
  /\ UNCHANGED <<pipelineVars, pageVars>>

\* handleMarkerClick(eventId) up to "await fetch(apiUrl)": select the event,
\* set the loading flag; fetchEventDetails returns the cached details, or
\* sets the flag and sends the request
MarkerClick(e) ==
  /\ selectedEventId' = e
  /\ isLoadingDetails' = TRUE
  /\ IF Cached(e)
     THEN inFlight' = inFlight
     ELSE /\ Pending < MaxPending
          /\ inFlight' = [inFlight EXCEPT ![e] = @ + 1]
  /\ UNCHANGED <<eventDetailsCache, lastResponse>>
  /\ UNCHANGED <<pipelineVars, pageVars>>

\* faulty variant: the body of a failed response is cached
ResponseFailedCaches(e) ==
  /\ inFlight[e] > 0
  /\ inFlight' = [inFlight EXCEPT ![e] = @ - 1]
  /\ eventDetailsCache' =
       [x \in DOMAIN eventDetailsCache \cup {e} |->
          IF x = e THEN Details(e) ELSE eventDetailsCache[x]]
  /\ isLoadingDetails' = FALSE
  /\ lastResponse' = <<e, "failed">>
  /\ UNCHANGED selectedEventId
  /\ UNCHANGED <<pipelineVars, pageVars>>

\* fetchEventDetails after the await, response.ok: cache the details;
\* finally: clear the loading flag
ResponseOk(e) ==
  /\ inFlight[e] > 0
  /\ inFlight' = [inFlight EXCEPT ![e] = @ - 1]
  /\ eventDetailsCache' =
       [x \in DOMAIN eventDetailsCache \cup {e} |->
          IF x = e THEN Details(e) ELSE eventDetailsCache[x]]
  /\ isLoadingDetails' = FALSE
  /\ lastResponse' = <<e, "ok">>
  /\ UNCHANGED selectedEventId
  /\ UNCHANGED <<pipelineVars, pageVars>>

\* fetchEventDetails after the await, !response.ok or a network error:
\* catch: return null; finally: clear the loading flag
ResponseFailed(e) ==
  /\ inFlight[e] > 0
  /\ inFlight' = [inFlight EXCEPT ![e] = @ - 1]
  /\ isLoadingDetails' = FALSE
  /\ lastResponse' = <<e, "failed">>
  /\ UNCHANGED <<selectedEventId, eventDetailsCache>>
  /\ UNCHANGED <<pipelineVars, pageVars>>

\* handleInfoClose, from the popup's close button
InfoClose ==
  /\ selectedEventId # NoSelection
  /\ selectedEventId' = NoSelection
  /\ isLoadingDetails' = FALSE
  /\ UNCHANGED <<eventDetailsCache, inFlight, lastResponse>>
  /\ UNCHANGED <<pipelineVars, pageVars>>

(***************************************************************************)
(* The navbar animation of MapComponent.jsx: the navbar is minimized while *)
(* the map moves. The handlers of the map's dragstart, dragend, zoomstart  *)
(* and zoomend events and the callbacks of the three timers each run in    *)
(* one step. A pending timer is a record of navTimers; a ref holds the id  *)
(* of a timer or NoTimer (null).                                           *)
(***************************************************************************)
\* timers of MapComponent pending at one time
MaxNavTimers == 3

NoTimer == 0

NoMapEvent == "none"

InitNav ==
  /\ isMapMoving = FALSE
  /\ navTimers = {}
  /\ minimizeTimeoutRef = NoTimer
  /\ expandTimeoutRef = NoTimer
  /\ fallbackTimeoutRef = NoTimer
  /\ lastMapEvent = NoMapEvent

\* the id setTimeout returns: one that no pending timer has
NewTimerId(timers) ==
  CHOOSE i \in 1..(Cardinality(timers) + 1) :
    /\ \A t \in timers : t.id # i
    /\ \A j \in 1..(i - 1) : \E t \in timers : t.id = j

\* clearTimeout(ref.current): no effect when the ref holds no pending timer
ClearTimeout(timers, ref) == {t \in timers : t.id # ref}

\* handleDragStart: cancel the expand and fallback timers; start the 300 ms
\* minimize timer unless one is held
handleDragStart ==
  /\ Cardinality(navTimers) < MaxNavTimers
  /\ LET cleared ==
           ClearTimeout(ClearTimeout(navTimers, expandTimeoutRef), fallbackTimeoutRef)
         id == NewTimerId(cleared)
     IN  /\ expandTimeoutRef' = NoTimer
         /\ fallbackTimeoutRef' = NoTimer
         /\ IF minimizeTimeoutRef = NoTimer
            THEN /\ navTimers' = cleared \cup {[id |-> id, kind |-> "minimize"]}
                 /\ minimizeTimeoutRef' = id
            ELSE /\ navTimers' = cleared
                 /\ UNCHANGED minimizeTimeoutRef
  /\ lastMapEvent' = "dragstart"
  /\ UNCHANGED isMapMoving
  /\ UNCHANGED <<pipelineVars, detailsVars, viewVars>>

\* handleDragEnd: with the minimize timer held, cancel it and return;
\* otherwise cancel the fallback timer and start the 200 ms expand timer
handleDragEnd ==
  /\ Cardinality(navTimers) < MaxNavTimers
  /\ IF minimizeTimeoutRef # NoTimer
     THEN /\ navTimers' = ClearTimeout(navTimers, minimizeTimeoutRef)
          /\ minimizeTimeoutRef' = NoTimer
          /\ UNCHANGED <<expandTimeoutRef, fallbackTimeoutRef>>
     ELSE LET cleared == ClearTimeout(navTimers, fallbackTimeoutRef)
              id == NewTimerId(cleared)
          IN  /\ navTimers' = cleared \cup {[id |-> id, kind |-> "expand"]}
              /\ fallbackTimeoutRef' = NoTimer
              /\ expandTimeoutRef' = id
              /\ UNCHANGED minimizeTimeoutRef
  /\ lastMapEvent' = "dragend"
  /\ UNCHANGED isMapMoving
  /\ UNCHANGED <<pipelineVars, detailsVars, viewVars>>

\* handleZoomStart: the code of handleDragStart
handleZoomStart ==
  /\ Cardinality(navTimers) < MaxNavTimers
  /\ LET cleared ==
           ClearTimeout(ClearTimeout(navTimers, expandTimeoutRef), fallbackTimeoutRef)
         id == NewTimerId(cleared)
     IN  /\ expandTimeoutRef' = NoTimer
         /\ fallbackTimeoutRef' = NoTimer
         /\ IF minimizeTimeoutRef = NoTimer
            THEN /\ navTimers' = cleared \cup {[id |-> id, kind |-> "minimize"]}
                 /\ minimizeTimeoutRef' = id
            ELSE /\ navTimers' = cleared
                 /\ UNCHANGED minimizeTimeoutRef
  /\ lastMapEvent' = "zoomstart"
  /\ UNCHANGED isMapMoving
  /\ UNCHANGED <<pipelineVars, detailsVars, viewVars>>

\* handleZoomEnd: the code of handleDragEnd
handleZoomEnd ==
  /\ Cardinality(navTimers) < MaxNavTimers
  /\ IF minimizeTimeoutRef # NoTimer
     THEN /\ navTimers' = ClearTimeout(navTimers, minimizeTimeoutRef)
          /\ minimizeTimeoutRef' = NoTimer
          /\ UNCHANGED <<expandTimeoutRef, fallbackTimeoutRef>>
     ELSE LET cleared == ClearTimeout(navTimers, fallbackTimeoutRef)
              id == NewTimerId(cleared)
          IN  /\ navTimers' = cleared \cup {[id |-> id, kind |-> "expand"]}
              /\ fallbackTimeoutRef' = NoTimer
              /\ expandTimeoutRef' = id
              /\ UNCHANGED minimizeTimeoutRef
  /\ lastMapEvent' = "zoomend"
  /\ UNCHANGED isMapMoving
  /\ UNCHANGED <<pipelineVars, detailsVars, viewVars>>

\* the callback of the minimize timer: minimize the navbar and start the
\* 5 s fallback timer
MinimizeFires ==
  \E t \in navTimers :
    /\ t.kind = "minimize"
    /\ isMapMoving' = TRUE
    /\ minimizeTimeoutRef' = NoTimer
    /\ LET rest == navTimers \ {t}
           id == NewTimerId(rest)
       IN  /\ navTimers' = rest \cup {[id |-> id, kind |-> "fallback"]}
           /\ fallbackTimeoutRef' = id
    /\ lastMapEvent' = "minimize"
    /\ UNCHANGED expandTimeoutRef
    /\ UNCHANGED <<pipelineVars, detailsVars, viewVars>>

\* the callback of an expand timer
ExpandFires ==
  \E t \in navTimers :
    /\ t.kind = "expand"
    /\ isMapMoving' = FALSE
    /\ expandTimeoutRef' = NoTimer
    /\ navTimers' = navTimers \ {t}
    /\ lastMapEvent' = "expand"
    /\ UNCHANGED <<minimizeTimeoutRef, fallbackTimeoutRef>>
    /\ UNCHANGED <<pipelineVars, detailsVars, viewVars>>

\* the callback of the fallback timer
FallbackFires ==
  \E t \in navTimers :
    /\ t.kind = "fallback"
    /\ isMapMoving' = FALSE
    /\ fallbackTimeoutRef' = NoTimer
    /\ navTimers' = navTimers \ {t}
    /\ lastMapEvent' = "fallback"
    /\ UNCHANGED <<minimizeTimeoutRef, expandTimeoutRef>>
    /\ UNCHANGED <<pipelineVars, detailsVars, viewVars>>

(***************************************************************************)
(* Events, filters and map bounds: the MapStateProvider with filters and   *)
(* MapContent, which reports the map's bounds to it. A handler, a timer    *)
(* callback or the rest of a request after its await runs in one step,     *)
(* together with the render it causes and the effects of that render. A    *)
(* callback sees the activeFilters of the render that created it: the      *)
(* timers carry that value in their filters field. Coordinates are in      *)
(* hundredths of a degree; bounds are <<north, east>>.                     *)
(***************************************************************************)
\* filters the user applies; timers of the page pending at one time
MaxFilters == 2
MaxMoveTimers == 2

\* 0.02 degrees
RefreshThreshold == 2

Filters == 1..MaxFilters

\* activeFilters is null
NoFilters == 0

\* a ref holding the id of a timer that fired or was cancelled: truthy, and
\* clearTimeout of it has no effect
FiredTimer == -1

\* mapBoundsRef or lastRefreshBoundsRef is null
NoBounds == <<>>

North(bounds) == bounds[1]

East(bounds) == bounds[2]

DefaultView == <<0, 0>>

\* the views the user moves the map to: from the default one, one is more
\* than 0.02 away to the east only and one to the north only; these two
\* are exactly 0.02 apart
Views == {DefaultView, <<2, 3>>, <<3, 1>>}

\* the events the backend holds
AllEvents == EventIds

InitView ==
  /\ events = {}
  /\ filteredEvents = {}
  /\ activeFilters = NoFilters
  /\ isLoadingEvents = TRUE
  /\ eventsRequests = 1
  /\ searchRequests = {}
  /\ mapView = DefaultView
  /\ hasInitialLoadRef = FALSE
  /\ mapBoundsRef = NoBounds
  /\ lastRefreshBoundsRef = NoBounds
  /\ viewTimers = {}
  /\ debounceTimeoutRef = NoTimer
  /\ dragTimeoutRef = NoTimer
  /\ zoomTimeoutRef = NoTimer

Abs(x) == IF x < 0 THEN 0 - x ELSE x

\* faulty variant: a move of exactly 0.02 counts
SignificantMoveFrom(bounds, lastBounds) ==
  \/ Abs(North(bounds) - North(lastBounds)) >= RefreshThreshold
  \/ Abs(East(bounds) - East(lastBounds)) >= RefreshThreshold

\* latDiff > 0.02 || lngDiff > 0.02
SignificantMove(bounds, lastBounds) ==
  \/ Abs(North(bounds) - North(lastBounds)) > RefreshThreshold
  \/ Abs(East(bounds) - East(lastBounds)) > RefreshThreshold

\* processedEvents: the filtered events when filters are active and the
\* search found some, otherwise all events
processedEvents ==
  IF activeFilters # NoFilters /\ filteredEvents # {}
  THEN filteredEvents
  ELSE events

\* the markers MapContent renders: !isLoadingEvents && events.map(...)
Markers == IF isLoadingEvents THEN {} ELSE processedEvents

\* FilterStatusBar: rendered when activeFilters is set
StatusBarShown == activeFilters # NoFilters

\* FilterStatusBar eventCount
StatusBarCount == Cardinality(filteredEvents)

\* the value of a ref after the timers in gone fired or were cancelled
Release(ref, gone) ==
  IF \E t \in gone : t.id = ref THEN FiredTimer ELSE ref

MoveTimers(timers, kind) == {t \in timers : t.kind = kind}

DebounceTimers(timers) == MoveTimers(timers, "debounce")

\* faulty variant: the pending debounce timer is not cancelled
updateBoundsKeepsTimer(bounds, filtersSeen, timers) ==
  /\ mapBoundsRef' = bounds
  /\ IF ~hasInitialLoadRef
     THEN /\ hasInitialLoadRef' = TRUE
          /\ viewTimers' = timers
          /\ debounceTimeoutRef' = Release(debounceTimeoutRef, viewTimers \ timers)
     ELSE LET id == NewTimerId(timers)
          IN  /\ viewTimers' =
                   timers \cup {[id |-> id, kind |-> "debounce",
                                 bounds |-> bounds, filters |-> filtersSeen]}
              /\ debounceTimeoutRef' = id
              /\ UNCHANGED hasInitialLoadRef
  /\ UNCHANGED lastRefreshBoundsRef

\* updateBounds(bounds), called by a closure that sees filtersSeen as
\* activeFilters, with timers pending: record the bounds; the first call
\* only marks the initial load; a later call cancels the debounce timer
\* and starts a 3 s one
updateBounds(bounds, filtersSeen, timers) ==
  /\ mapBoundsRef' = bounds
  /\ IF ~hasInitialLoadRef
     THEN /\ hasInitialLoadRef' = TRUE
          /\ viewTimers' = timers
          /\ debounceTimeoutRef' = Release(debounceTimeoutRef, viewTimers \ timers)
     ELSE LET cleared == ClearTimeout(timers, debounceTimeoutRef)
              id == NewTimerId(cleared)
          IN  /\ viewTimers' =
                   cleared \cup {[id |-> id, kind |-> "debounce",
                                  bounds |-> bounds, filters |-> filtersSeen]}
              /\ debounceTimeoutRef' = id
              /\ UNCHANGED hasInitialLoadRef
  /\ UNCHANGED lastRefreshBoundsRef

navRefs ==
  <<navTimers, minimizeTimeoutRef, expandTimeoutRef, fallbackTimeoutRef, lastMapEvent>>

eventsState ==
  <<events, filteredEvents, activeFilters, isLoadingEvents, eventsRequests, searchRequests>>

\* MapContent's effect at mount, "Initial bounds setup": handleBoundsChanged
InitialBounds ==
  /\ ~hasInitialLoadRef
  /\ updateBounds(mapView, activeFilters, viewTimers)
  /\ UNCHANGED <<dragTimeoutRef, zoomTimeoutRef, mapView, eventsState>>
  /\ UNCHANGED <<pipelineVars, detailsVars, navRefs, isMapMoving>>

\* useMapEvents dragstart
dragstart ==
  /\ hasInitialLoadRef
  /\ isMapMoving' = TRUE
  /\ viewTimers' = ClearTimeout(viewTimers, dragTimeoutRef)
  /\ dragTimeoutRef' = IF dragTimeoutRef = NoTimer THEN NoTimer ELSE FiredTimer
  /\ UNCHANGED <<debounceTimeoutRef, zoomTimeoutRef, mapView, hasInitialLoadRef,
                 mapBoundsRef, lastRefreshBoundsRef, eventsState>>
  /\ UNCHANGED <<pipelineVars, detailsVars, navRefs>>

\* useMapEvents dragend, the map now showing view: start the 500 ms timer.
\* The map fires dragend at the end of a drag, after the dragstart that set
\* isMapMoving and cancelled the timer of the drag before
dragend(view) ==
  /\ hasInitialLoadRef
  /\ isMapMoving
  /\ MoveTimers(viewTimers, "drag") = {}
  /\ Cardinality(viewTimers) < MaxMoveTimers
  /\ mapView' = view
  /\ LET id == NewTimerId(viewTimers)
     IN  /\ viewTimers' =
              viewTimers \cup {[id |-> id, kind |-> "drag",
                                bounds |-> NoBounds, filters |-> activeFilters]}
         /\ dragTimeoutRef' = id
  /\ UNCHANGED <<debounceTimeoutRef, zoomTimeoutRef, hasInitialLoadRef,
                 mapBoundsRef, lastRefreshBoundsRef, eventsState>>
  /\ UNCHANGED <<pipelineVars, detailsVars, navRefs, isMapMoving>>

\* useMapEvents zoomstart
zoomstart ==
  /\ hasInitialLoadRef
  /\ viewTimers' = ClearTimeout(viewTimers, zoomTimeoutRef)
  /\ zoomTimeoutRef' = IF zoomTimeoutRef = NoTimer THEN NoTimer ELSE FiredTimer
  /\ UNCHANGED <<debounceTimeoutRef, dragTimeoutRef, mapView, hasInitialLoadRef,
                 mapBoundsRef, lastRefreshBoundsRef, eventsState>>
  /\ UNCHANGED <<pipelineVars, detailsVars, navRefs, isMapMoving>>

\* useMapEvents zoomend, the map now showing view: start the 300 ms timer.
\* The map fires zoomend at the end of a zoom, after the zoomstart that
\* cancelled the timer of the zoom before
zoomend(view) ==
  /\ hasInitialLoadRef
  /\ MoveTimers(viewTimers, "zoom") = {}
  /\ Cardinality(viewTimers) < MaxMoveTimers
  /\ mapView' = view
  /\ LET id == NewTimerId(viewTimers)
     IN  /\ viewTimers' =
              viewTimers \cup {[id |-> id, kind |-> "zoom",
                                bounds |-> NoBounds, filters |-> activeFilters]}
         /\ zoomTimeoutRef' = id
  /\ UNCHANGED <<debounceTimeoutRef, dragTimeoutRef, hasInitialLoadRef,
                 mapBoundsRef, lastRefreshBoundsRef, eventsState>>
  /\ UNCHANGED <<pipelineVars, detailsVars, navRefs, isMapMoving>>

\* the callback of a dragend timer: setIsMapMoving(false), handleBoundsChanged
DragTimerFires ==
  \E t \in viewTimers :
    /\ t.kind = "drag"
    /\ isMapMoving' = FALSE
    /\ updateBounds(mapView, t.filters, viewTimers \ {t})
    /\ dragTimeoutRef' = Release(dragTimeoutRef, {t})
    /\ UNCHANGED <<zoomTimeoutRef, mapView, eventsState>>
    /\ UNCHANGED <<pipelineVars, detailsVars, navRefs>>

\* the callback of a zoomend timer: updateZoom, handleBoundsChanged
ZoomTimerFires ==
  \E t \in viewTimers :
    /\ t.kind = "zoom"
    /\ updateBounds(mapView, t.filters, viewTimers \ {t})
    /\ zoomTimeoutRef' = Release(zoomTimeoutRef, {t})
    /\ UNCHANGED <<dragTimeoutRef, mapView, eventsState>>
    /\ UNCHANGED <<pipelineVars, detailsVars, navRefs, isMapMoving>>

\* the callback of the debounce timer: the first one records the bounds;
\* a later one, after a significant move, records them and calls
\* fetchEvents unless its closure saw filters
DebounceFires ==
  \E t \in viewTimers :
    /\ t.kind = "debounce"
    /\ viewTimers' = viewTimers \ {t}
    /\ debounceTimeoutRef' = Release(debounceTimeoutRef, {t})
    /\ IF lastRefreshBoundsRef = NoBounds
       THEN /\ lastRefreshBoundsRef' = t.bounds
            /\ UNCHANGED <<isLoadingEvents, eventsRequests>>
       ELSE IF SignificantMove(t.bounds, lastRefreshBoundsRef)
       THEN /\ lastRefreshBoundsRef' = t.bounds
            /\ IF t.filters = NoFilters
               THEN /\ eventsRequests < MaxPending
                    /\ isLoadingEvents' = TRUE
                    /\ eventsRequests' = eventsRequests + 1
               ELSE UNCHANGED <<isLoadingEvents, eventsRequests>>
       ELSE UNCHANGED <<lastRefreshBoundsRef, isLoadingEvents, eventsRequests>>
    /\ UNCHANGED <<events, filteredEvents, activeFilters, searchRequests>>
    /\ UNCHANGED <<dragTimeoutRef, zoomTimeoutRef, mapView, hasInitialLoadRef,
                   mapBoundsRef>>
    /\ UNCHANGED <<pipelineVars, detailsVars, navVars>>

boundsState ==
  <<mapView, hasInitialLoadRef, mapBoundsRef, lastRefreshBoundsRef, viewTimers,
    debounceTimeoutRef, dragTimeoutRef, zoomTimeoutRef>>

\* fetchEvents after the await, response.ok
FetchEventsOk ==
  /\ eventsRequests > 0
  /\ eventsRequests' = eventsRequests - 1
  /\ events' = AllEvents
  /\ isLoadingEvents' = FALSE
  /\ UNCHANGED <<filteredEvents, activeFilters, searchRequests, boundsState>>
  /\ UNCHANGED <<pipelineVars, detailsVars, navVars>>

\* fetchEvents after the await, failed: catch, finally
FetchEventsFailed ==
  /\ eventsRequests > 0
  /\ eventsRequests' = eventsRequests - 1
  /\ isLoadingEvents' = FALSE
  /\ UNCHANGED <<events, filteredEvents, activeFilters, searchRequests, boundsState>>
  /\ UNCHANGED <<pipelineVars, detailsVars, navVars>>

\* handleFilterChange(filters): searchEvents up to its await
ApplyFilters(filters) ==
  /\ filters \notin searchRequests
  /\ searchRequests' = searchRequests \cup {filters}
  /\ isLoadingEvents' = TRUE
  /\ UNCHANGED <<events, filteredEvents, activeFilters, eventsRequests, boundsState>>
  /\ UNCHANGED <<pipelineVars, detailsVars, navVars>>

\* faulty variant: the bounds effect does not run again
BoundsEffectOnce(filtersSeen) ==
  UNCHANGED <<hasInitialLoadRef, mapBoundsRef, lastRefreshBoundsRef,
              viewTimers, debounceTimeoutRef, dragTimeoutRef, zoomTimeoutRef>>

\* the effects of a render in which activeFilters changed: updateBounds and
\* handleBoundsChanged are new functions, so MapContent's bounds effect runs
\* again, once MapContent is mounted: its cleanup cancels the drag and the
\* zoom timer, then handleBoundsChanged calls the new updateBounds
BoundsEffect(filtersSeen) ==
  IF hasInitialLoadRef
  THEN LET cleared == ClearTimeout(ClearTimeout(viewTimers, dragTimeoutRef),
                                   zoomTimeoutRef)
       IN  /\ dragTimeoutRef' = Release(dragTimeoutRef, viewTimers \ cleared)
           /\ zoomTimeoutRef' = Release(zoomTimeoutRef, viewTimers \ cleared)
           /\ updateBounds(mapView, filtersSeen, cleared)
  ELSE UNCHANGED <<hasInitialLoadRef, mapBoundsRef, lastRefreshBoundsRef,
                   viewTimers, debounceTimeoutRef, dragTimeoutRef, zoomTimeoutRef>>

\* searchEvents after the await, response.ok with data
SearchOk(filters, data) ==
  /\ filters \in searchRequests
  /\ searchRequests' = searchRequests \ {filters}
  /\ filteredEvents' = data
  /\ activeFilters' = filters
  /\ isLoadingEvents' = FALSE
  /\ BoundsEffect(filters)
  /\ UNCHANGED <<events, eventsRequests, mapView>>
  /\ UNCHANGED <<pipelineVars, detailsVars, navVars>>

\* searchEvents after the await, failed: catch, finally
SearchFailed(filters) ==
  /\ filters \in searchRequests
  /\ searchRequests' = searchRequests \ {filters}
  /\ filteredEvents' = {}
  /\ isLoadingEvents' = FALSE
  /\ UNCHANGED <<events, activeFilters, eventsRequests, boundsState>>
  /\ UNCHANGED <<pipelineVars, detailsVars, navVars>>

\* clearFilters
ClearFilters ==
  /\ activeFilters' = NoFilters
  /\ filteredEvents' = {}
  /\ IF activeFilters # NoFilters
     THEN BoundsEffect(NoFilters)
     ELSE UNCHANGED <<hasInitialLoadRef, mapBoundsRef, lastRefreshBoundsRef,
                      viewTimers, debounceTimeoutRef, dragTimeoutRef,
                      zoomTimeoutRef>>
  /\ UNCHANGED <<events, isLoadingEvents, eventsRequests, searchRequests, mapView>>
  /\ UNCHANGED <<pipelineVars, detailsVars, navVars>>

\* the page outside the popup, as mounted
InitPage == InitNav /\ InitView

(***************************************************************************)
(* run_pipeline.py: collectors -> output_enhancer -> consolidate -> load.  *)
(***************************************************************************)
Normalize ==
  /\ stage = "scraped"
  /\ cleaned' = NormalizeAll(raw)
  /\ stage' = "normalized"
  /\ UNCHANGED <<mapVars, raw, master, run, pos, step, attempts, coords, cache, store, nextId,
                 outcome, summary, geoLog, prevStore, prevLoaded, changed>>

\* faulty variant: the Consolidator does not wait for the Normalizer
ConsolidateStepEarly ==
  /\ stage \in {"scraped", "normalized"}
  /\ master' = Consolidate(cleaned)
  /\ stage' = "consolidated"
  /\ UNCHANGED <<mapVars, raw, cleaned, run, pos, step, attempts, coords, cache, store, nextId,
                 outcome, summary, geoLog, prevStore, prevLoaded, changed>>

ConsolidateStep ==
  /\ stage = "normalized"
  /\ master' = Consolidate(cleaned)
  /\ stage' = "consolidated"
  /\ UNCHANGED <<mapVars, raw, cleaned, run, pos, step, attempts, coords, cache, store, nextId,
                 outcome, summary, geoLog, prevStore, prevLoaded, changed>>

\* urls of the MasterRecords the finished run inserted or updated
LoadedUrls ==
  {master[i].event_url : i \in {j \in 1..Len(outcome) : outcome[j] \in {"inserted", "updated"}}}

BeginRun(newRaw, edited) ==
  /\ stage = "done" /\ run < MaxRuns
  /\ raw' = newRaw
  /\ changed' = edited
  /\ run' = run + 1
  /\ stage' = "scraped"
  /\ prevStore' = store
  /\ prevLoaded' = LoadedUrls
  /\ UNCHANGED <<mapVars, cleaned, master, pos, step, attempts, coords, cache, store, nextId,
                 outcome, summary, geoLog>>

\* the collectors find the sources unchanged
RerunUnchanged == BeginRun(raw, 0)

\* the collectors find one record with another name
RerunRenamed ==
  \E i \in 1..Len(raw) : \E n \in Names :
    /\ n # raw[i].event_name
    /\ BeginRun([raw EXCEPT ![i].event_name = n], i)

\* the collectors find one record with another address
RerunMoved ==
  \E i \in 1..Len(raw) : \E a \in CityOnly :
    /\ a # raw[i].venue_address
    /\ BeginRun([raw EXCEPT ![i].venue_address = a], i)

\* what the collectors may deliver in the first run
RawCatalog ==
  { RawRecord("allevents.in", "1", "u1", "n1", "12 MG Road 560034", 1),
    RawRecord("eventbrite", "1", "u1", "n2", "Bangalore Tech Hub", 2),
    RawRecord("allevents.in", "1", "u1", "n1", NULL, 1),
    RawRecord("allevents.in", "1", "u2", NULL, "100 Park Street", 2),
    RawRecord("eventbrite", "2", "u2", "n2", "12 MG Road 560034", 1),
    RawRecord("eventbrite", "1", "u2", "n2", "Secret Venue", 1),
    RawRecord("allevents.in", NULL, "u1", "n1", "Bangalore", 1) }

SeqsUpTo(S, n) == UNION {[1..k -> S] : k \in 0..n}

InitLoader ==
  /\ master = <<>>
  /\ run = 1
  /\ pos = 1
  /\ step = "geocode"
  /\ attempts = 0
  /\ coords = NoCoords
  /\ cache = EmptyCache
  /\ store = {}
  /\ nextId = 1
  /\ outcome = <<>>
  /\ summary = ZeroSummary
  /\ geoLog = <<>>
  /\ prevStore = {}
  /\ prevLoaded = {}
  /\ changed = 0
  /\ InitMap
  /\ InitPage

Init ==
  /\ raw \in SeqsUpTo(RawCatalog, MaxScraped)
  /\ cleaned = <<>>
  /\ stage = "scraped"
  /\ InitLoader

Next ==
  \/ Normalize
  \/ ConsolidateStep
  \/ LoaderStep
  \/ RerunUnchanged
  \/ RerunRenamed
  \/ RerunMoved

Spec == Init /\ [][Next]_vars

\* the Loader keeps running until the run's summary is written
FairSpec == Spec /\ WF_vars(LoaderStep)

(***************************************************************************)
(* One pipeline run whose Loader can be cancelled and started again from   *)
(* the last completed stage (cleaned_data/events_master.json).             *)
(***************************************************************************)
\* the operator stops load_to_supabase.py; run counts the Loader's starts
Cancel ==
  /\ stage = "loading" /\ run < MaxRuns
  /\ stage' = "consolidated"
  /\ run' = run + 1
  /\ UNCHANGED <<mapVars, raw, cleaned, master, pos, step, attempts, coords, cache, store, nextId,
                 outcome, summary, geoLog, prevStore, prevLoaded, changed>>

\* the table before the run: empty, or holding a row of an earlier load
ExistingStores ==
  { {},
    {WithId(1, [url |-> "u1", name |-> "n2", address |-> "Bangalore", lat |-> 13, long |-> 78])} }

InitCancel ==
  /\ raw \in SeqsUpTo(RawCatalog, MaxScraped)
  /\ cleaned = <<>>
  /\ master = <<>>
  /\ stage = "scraped"
  /\ run = 1
  /\ pos = 1
  /\ step = "geocode"
  /\ attempts = 0
  /\ coords = NoCoords
  /\ cache = EmptyCache
  /\ store \in ExistingStores
  /\ nextId = Cardinality(store) + 1
  /\ outcome = <<>>
  /\ summary = ZeroSummary
  /\ geoLog = <<>>
  /\ prevStore = store
  /\ prevLoaded = {}
  /\ changed = 0
  /\ InitMap
  /\ InitPage

NextCancel ==
  \/ Normalize
  \/ ConsolidateStep
  \/ LoaderStep
  \/ Cancel

SpecCancel == InitCancel /\ [][NextCancel]_vars

(***************************************************************************)
(* The Consolidator alone, over every input of the bounded record domain.  *)
(***************************************************************************)
ConsAddrs == StrongAddrs \cup WeakAddrs \cup {NULL}

ConsDomain ==
  { RawRecord(s, "1", u, n, a, t) :
      s \in Sources, u \in Urls, n \in Names \cup {NULL}, a \in ConsAddrs, t \in Stamps }
  \cup { RawRecord("allevents.in", NULL, "u1", "n1", "Bangalore Tech Hub", 1) }

\* the Consolidator's input: the Normalizer's output for the raw records
InitCons ==
  /\ raw \in SeqsUpTo(ConsDomain, MaxInput)
  /\ cleaned = NormalizeAll(raw)
  /\ stage = "normalized"
  /\ InitLoader

NextCons == ConsolidateStep

SpecCons == InitCons /\ [][NextCons]_vars

(***************************************************************************)
(* The Normalizer alone, over raw events of a bounded text domain.         *)
(***************************************************************************)
\* characters per time string that are tried exhaustively
MaxTimeLen == 3

TimeAlphabet == {"0", "1", "2", "5", "9", ":", " ", "a", "p", "m", "P", "x"}

\* time strings as the sources write them
TimeCatalog ==
  { NoText,
    <<"5", " ", "P", "M">>,
    <<"5", ":", "3", "0", " ", "p", "m">>,
    <<"9", "a", "m">>,
    <<"n", "o", "o", "n", " ", "o", "n", "w", "a", "r", "d", "s">>,
    <<"9", "a", "m", " ", "o", "n", "w", "a", "r", "d", "s">>,
    <<"6", " ", "P", "M", " ", "O", "n", "w", "a", "r", "d", "s">>,
    <<"1", "2", " ", "a", "m">>,
    <<"1", "2", ":", "4", "5", " ", "P", "M">>,
    <<"1", "3", " ", "p", "m">>,
    <<"5", ":", "6", "0", " ", "p", "m">>,
    <<"1", "7", ":", "3", "0">>,
    <<" ", "7", " ", "p", "m", " ">> }

MicrosoftVenue == <<"Microsoft", "India", "Office">>
MicrosoftAddress == <<"One", "Microsoft", ",", "Outer", "Ring", "Road", ",", "Devarabeesanahalli">>
WorkshopVenue == <<"Learn", "Data", "Science", "Workshop">>
Bangalore == <<"Bangalore">>

\* a description scraped into the venue field (more than 80 characters)
LongVenue ==
  <<"Join", "us", "for", "an", "unforgettable", "evening", "of", "live", "music", "and", "street", "food", "at", "the", "rooftop", "terrace">>

VenueCatalog ==
  { NoText, MicrosoftVenue, WorkshopVenue, LongVenue, Bangalore,
    <<"TBA">>, <<"Online">>, <<"Bangalore", "Tech", "Hub">> }

AddressCatalog ==
  { NoText, MicrosoftAddress, Bangalore,
    <<"560034">>, <<"MG", "Road">>, <<"12", "Cross">>, <<"123", "Main">>,
    <<"Koramangala", ",", "Bangalore">> }

CityCatalog == {NoText, Bangalore}

MicrosoftEvent == RawEvent(MicrosoftVenue, MicrosoftAddress, Bangalore, <<"5", " ", "P", "M">>)
WorkshopEvent == RawEvent(WorkshopVenue, Bangalore, Bangalore, <<"n", "o", "o", "n", " ", "o", "n", "w", "a", "r", "d", "s">>)

\* every venue with every catalog time; every short time string with one venue
EventDomain ==
  { RawEvent(v, a, c, t) :
      v \in VenueCatalog, a \in AddressCatalog, c \in CityCatalog, t \in TimeCatalog }
  \cup { RawEvent(NoText, NoText, NoText, t) : t \in SeqsUpTo(TimeAlphabet, MaxTimeLen) }

\* one source file: a single event, or the two documented examples
InitNorm ==
  /\ raw \in {<<r>> : r \in EventDomain} \cup {<<MicrosoftEvent, WorkshopEvent>>}
  /\ cleaned = <<>>
  /\ stage = "scraped"
  /\ InitLoader

Enhance ==
  /\ stage = "scraped"
  /\ cleaned' = EnhanceAll(raw)
  /\ stage' = "normalized"
  /\ UNCHANGED <<mapVars, raw, master, run, pos, step, attempts, coords, cache, store, nextId,
                 outcome, summary, geoLog, prevStore, prevLoaded, changed>>

NextNorm == Enhance

SpecNorm == InitNorm /\ [][NextNorm]_vars

(***************************************************************************)
(* The map frontend alone: clicks on markers, the popup's close button and *)
(* the responses of get-event-details, in any order.                       *)
(***************************************************************************)
\* the page is mounted; no pipeline run is in progress
InitMapOnly ==
  /\ raw = <<>>
  /\ cleaned = <<>>
  /\ stage = "done"
  /\ InitLoader

NextMap ==
  \/ \E e \in EventIds : MarkerClick(e)
  \/ \E e \in EventIds : ResponseOk(e)
  \/ \E e \in EventIds : ResponseFailed(e)
  \/ InfoClose

SpecMap == InitMapOnly /\ [][NextMap]_vars

(***************************************************************************)
(* The navbar animation alone: map events and timer callbacks in any       *)
(* order, end events possibly missing.                                     *)
(***************************************************************************)
NextNav ==
  \/ handleDragStart
  \/ handleDragEnd
  \/ handleZoomStart
  \/ handleZoomEnd
  \/ MinimizeFires
  \/ ExpandFires
  \/ FallbackFires

SpecNav == InitMapOnly /\ [][NextNav]_vars

(***************************************************************************)
(* The map bounds and the filters alone: map movements, timer callbacks,   *)
(* filter searches and clears and the responses in any order. What a       *)
(* search returns has no part in the handling of the bounds; every search  *)
(* returns all events here, and the user applies one set of filters.      *)
(***************************************************************************)
SomeFilters == 1

NextBounds ==
  \/ InitialBounds
  \/ dragstart
  \/ \E view \in Views : dragend(view)
  \/ zoomstart
  \/ \E view \in Views : zoomend(view)
  \/ DragTimerFires
  \/ ZoomTimerFires
  \/ DebounceFires
  \/ FetchEventsOk
  \/ ApplyFilters(SomeFilters)
  \/ SearchOk(SomeFilters, AllEvents)
  \/ SearchFailed(SomeFilters)
  \/ ClearFilters

SpecBounds == InitMapOnly /\ [][NextBounds]_vars

(***************************************************************************)
(* The events and the filters alone, on a map that is not moved: the       *)
(* responses of get-all-events, filter searches with any result, clears.   *)
(***************************************************************************)
NextFilter ==
  \/ InitialBounds
  \/ FetchEventsOk
  \/ FetchEventsFailed
  \/ \E filters \in Filters : ApplyFilters(filters)
  \/ \E filters \in Filters, data \in SUBSET AllEvents : SearchOk(filters, data)
  \/ \E filters \in Filters : SearchFailed(filters)
  \/ ClearFilters

SpecFilter == InitMapOnly /\ [][NextFilter]_vars

(***************************************************************************)
(* Properties of the Consolidator (SpecCons).                              *)
(***************************************************************************)
Range(sq) == {sq[i] : i \in 1..Len(sq)}

Consolidated == stage = "consolidated"

\* the Consolidator's input records that carry an event_key
Keyed == Range(Resolvable(cleaned))

KeyUnique ==
  \A i, j \in 1..Len(master) : i # j => master[i].event_key # master[j].event_key

UrlUnique ==
  \A i, j \in 1..Len(master) : i # j => master[i].event_url # master[j].event_url

\* every output record carries the event_key of an input record
KeysFromInput == \A m \in Range(master) : \E r \in Keyed : r.event_key = m.event_key

\* the event_key k never meets another event_key through a shared event_url
KeyStandsAlone(k) ==
  \A x, y \in Keyed : (x.event_key = k /\ y.event_url = x.event_url) => y.event_key = k

\* the event_url u never meets another event_url through a shared event_key
UrlStandsAlone(u) ==
  \A x, y \in Keyed : (x.event_url = u /\ y.event_key = x.event_key) => y.event_url = u

\* C4 as stated: at most one MasterRecord per event_key, and every event_key
\* of the input that is resolvable has a MasterRecord.
C4_AsStated ==
  Consolidated =>
    /\ KeyUnique
    /\ \A r \in Keyed : \E m \in Range(master) : m.event_key = r.event_key

\* C4 (amended): the MasterSet holds at most one record per event_key, every
\* MasterRecord carries an event_key of the input, and every resolvable
\* event_key of the input has a MasterRecord unless one of its records shares
\* its event_url with a record of another event_key (the event_url pass then
\* keeps only the winner's event_key).
C4_OnePerEventKey ==
  Consolidated =>
    /\ KeyUnique
    /\ KeysFromInput
    /\ \A r \in Keyed :
         KeyStandsAlone(r.event_key) => \E m \in Range(master) : m.event_key = r.event_key

\* two input records with one event_key became one MasterRecord
C4_Witness ==
  /\ Consolidated
  /\ \E i, j \in 1..Len(cleaned) :
       /\ i # j
       /\ cleaned[i].event_key # NoKey
       /\ cleaned[i].event_key = cleaned[j].event_key
       /\ cleaned[i].event_name # cleaned[j].event_name
  /\ Len(master) = 1

\* C5 as stated: every event_url of the input has exactly one MasterRecord.
C5_AsStated ==
  Consolidated =>
    \A r \in Keyed : Cardinality({i \in 1..Len(master) : master[i].event_url = r.event_url}) = 1

\* C5 (amended): no two MasterRecords share an event_url, also when the
\* records that carried it had different event_keys; an event_url of the input
\* has exactly one MasterRecord unless one of its records shares its event_key
\* with a record of another event_url (the event_key pass then keeps only the
\* winner's event_url).
C5_OnePerEventUrl ==
  Consolidated =>
    /\ UrlUnique
    /\ \A r \in Keyed :
         UrlStandsAlone(r.event_url) =>
           Cardinality({i \in 1..Len(master) : master[i].event_url = r.event_url}) = 1

\* two records of different sources with one event_url became one MasterRecord
C5_Witness ==
  /\ Consolidated
  /\ \E i, j \in 1..Len(cleaned) :
       /\ cleaned[i].event_key # NoKey /\ cleaned[j].event_key # NoKey
       /\ cleaned[i].event_key # cleaned[j].event_key
       /\ cleaned[i].event_url = cleaned[j].event_url
  /\ Len(master) = 1

\* x wins the general tie-break against y
Beats(x, y) ==
  \/ Completeness(x) > Completeness(y)
  \/ Completeness(x) = Completeness(y) /\ x.last_updated > y.last_updated

\* x wins an address-derived field against y
AddrBeats(x, y) ==
  \/ ConfidenceRank(x.address_confidence) > ConfidenceRank(y.address_confidence)
  \/ /\ ConfidenceRank(x.address_confidence) = ConfidenceRank(y.address_confidence)
     /\ Beats(x, y)

\* the value of field f in m follows the precedence between x and y
FieldFollows(f, x, y, m, xWins, yWins) ==
  /\ m[f] \in {x[f], y[f]}
  /\ x[f] = NULL => m[f] = y[f]
  /\ y[f] = NULL => m[f] = x[f]
  /\ (x[f] # NULL /\ y[f] # NULL /\ xWins) => m[f] = x[f]
  /\ (x[f] # NULL /\ y[f] # NULL /\ yWins) => m[f] = y[f]

\* x and y share a dedup anchor
Linked(x, y) == x.event_key = y.event_key \/ x.event_url = y.event_url

\* C6: when the input has two keyed records and they share a dedup anchor,
\* the MasterSet is one record whose every field is the non-null value if
\* only one side has one, else the value of the record with the higher
\* address_confidence (address-derived fields), else of the record with more
\* non-null fields, else of the record with the later last_updated; its source
\* is the source of the record that wins the general tie-break.
C6_MergePrecedence ==
  (Consolidated /\ Len(Resolvable(cleaned)) = 2) =>
    LET x == Resolvable(cleaned)[1]
        y == Resolvable(cleaned)[2]
    IN Linked(x, y) =>
         /\ Len(master) = 1
         /\ FieldFollows("event_name", x, y, master[1], Beats(x, y), Beats(y, x))
         /\ FieldFollows("resolved_venue_address", x, y, master[1],
                         AddrBeats(x, y), AddrBeats(y, x))
         /\ Beats(x, y) => master[1].source = x.source
         /\ Beats(y, x) => master[1].source = y.source
         /\ master[1].source \in {x.source, y.source}

\* two linked records that conflict on the name and on the address, the
\* address of the less complete record carrying the higher confidence
C6_Witness ==
  /\ Consolidated /\ Len(Resolvable(cleaned)) = 2 /\ Len(master) = 1
  /\ LET x == Resolvable(cleaned)[1]
         y == Resolvable(cleaned)[2]
     IN /\ Linked(x, y)
        /\ x.event_name # NULL /\ y.event_name # NULL /\ x.event_name # y.event_name
        /\ x.resolved_venue_address # NULL /\ y.resolved_venue_address # NULL
        /\ AddrBeats(x, y) /\ Beats(y, x)
        /\ master[1].resolved_venue_address = x.resolved_venue_address
        /\ master[1].event_name = y.event_name

Perms(sq) ==
  { [i \in 1..Len(sq) |-> sq[q[i]]] :
      q \in {f \in [1..Len(sq) -> 1..Len(sq)] :
               \A a, b \in 1..Len(sq) : a # b => f[a] # f[b]} }

\* x and y tie under the precedence rule
FullTie(x, y) ==
  Completeness(x) = Completeness(y) /\ x.last_updated = y.last_updated

\* records share anchors only in isolated pairs, and no such pair ties
PairsWithoutTie ==
  LET K == Resolvable(cleaned)
  IN \A i, j \in 1..Len(K) :
       (i # j /\ Linked(K[i], K[j])) =>
         /\ K[i] = K[j] \/ ~FullTie(K[i], K[j])
         /\ \A l \in 1..Len(K) \ {i, j} : ~Linked(K[l], K[i]) /\ ~Linked(K[l], K[j])

StoreUrlUnique == \A x, y \in store : x.url = y.url => x = y

\* the row of url u without its store-assigned id, as a set (empty: no row)
Content(rows, u) ==
  {[url |-> x.url, name |-> x.name, address |-> x.address, lat |-> x.lat, long |-> x.long] :
     x \in RowsWithUrl(rows, u)}

\* C1: the store never holds two rows with one url; a step that writes the
\* store leaves every row its id and url, writes the MasterRecord's fields to
\* the row of its url, leaves the rows of other urls alone, and adds a row
\* exactly when the url had none.
C1_UpsertByUrl ==
  [][ /\ StoreUrlUnique'
      /\ \A x \in store : \E y \in store' : y.id = x.id /\ y.url = x.url
      /\ store' # store =>
           LET f == StoredFields(Current, coords)
           IN /\ Content(store', f.url) = {f}
              /\ \A x \in store : x.url # f.url => x \in store'
              /\ Cardinality(store') =
                   Cardinality(store) + (IF RowsWithUrl(store, f.url) = {} THEN 1 ELSE 0)
    ]_vars

\* a later run rewrote an existing row under its old id
C1_Witness ==
  /\ run = 2 /\ stage = "done"
  /\ \E x \in prevStore : \E y \in store :
       y.id = x.id /\ y.url = x.url /\ y.name # x.name
  /\ Cardinality(store) = Cardinality(prevStore)

Sum(sm) == sm.inserted + sm.updated + sm.skipped + sm.failed

Tally(o) == Cardinality({i \in 1..Len(outcome) : outcome[i] = o})

\* C8: when the Loader has finished, every MasterRecord has one outcome and
\* loaded (inserted + updated) + skipped + failed equals the number of
\* MasterRecords; each count is the number of records with that outcome.
C8_SummaryAddsUp ==
  stage = "done" =>
    /\ Len(outcome) = Len(master)
    /\ Sum(summary) = Len(master)
    /\ \A o \in {"inserted", "updated", "skipped", "failed"} : summary[o] = Tally(o)

\* a run that skipped one record and failed to write another
C8_Witness ==
  /\ stage = "done" /\ Len(master) = 2
  /\ summary.skipped = 1 /\ summary.failed = 1

\* C9: when the Loader has finished, every MasterRecord was processed; the
\* row of a loaded record holds that record's fields and the coordinates of
\* its address, whatever happened to the other records; the row (or absence
\* of a row) of a skipped or failed record, and of every other url, is as it
\* was when the run started. Content is compared without the store's id.
C9_FailureIsolation ==
  stage = "done" =>
    /\ Len(outcome) = Len(master)
    /\ \A i \in 1..Len(master) :
         IF outcome[i] \in {"inserted", "updated"}
         THEN Content(store, master[i].event_url) =
                {StoredFields(master[i], GeoCoord(master[i].resolved_venue_address))}
         ELSE RowsWithUrl(store, master[i].event_url) =
                RowsWithUrl(prevStore, master[i].event_url)
    /\ \A x \in prevStore :
         (\A i \in 1..Len(master) : master[i].event_url # x.url) => x \in store

\* the first record failed (geocode or write) and the second was loaded
C9_Witness ==
  /\ stage = "done" /\ Len(master) = 2
  /\ outcome[1] \in {"skipped", "failed"}
  /\ outcome[2] \in {"inserted", "updated"}

\* the geocode calls of one record: at most 1 + MaxRetries, each but the last
\* a transient failure
RetryBounded ==
  /\ attempts <= MaxRetries + 1
  /\ Len(geoLog) <= MaxRetries + 1
  /\ \A i \in 1..(Len(geoLog) - 1) : geoLog[i] = "transient"

\* C10: a record's geocode call is retried only after a transient failure and
\* at most MaxRetries times, and every Loader run that starts ends with its
\* summary, whatever the geocoder answers.
C10_BoundedRetry ==
  /\ []RetryBounded
  /\ (stage = "loading") ~> (stage = "done")

\* a record was given up after 1 + MaxRetries transient failures
C10_Witness ==
  /\ stage = "loading"
  /\ Len(geoLog) = MaxRetries + 1
  /\ \A i \in 1..Len(geoLog) : geoLog[i] = "transient"
  /\ Len(outcome) >= 1 /\ outcome[Len(outcome)] = "skipped"

UnchangedRerun == stage = "done" /\ run >= 2 /\ changed = 0

\* C2 as stated: a run on unchanged input leaves the store as it was.
C2_AsStated == UnchangedRerun => store = prevStore

\* C2 (amended): a run on unchanged input leaves unchanged every row whose
\* MasterRecord the previous run loaded, and removes no row; it can only add
\* or rewrite the rows of records the previous run skipped or failed. When
\* the previous run loaded every MasterRecord the store is left as it was.
C2_Idempotent ==
  UnchangedRerun =>
    /\ \A x \in prevStore : x.url \in prevLoaded => x \in store
    /\ \A y \in store : y.url \in prevLoaded => y \in prevStore
    /\ \A x \in prevStore : \E y \in store : y.id = x.id /\ y.url = x.url
    /\ (\A i \in 1..Len(master) : master[i].event_url \in prevLoaded) => store = prevStore

\* a second run on unchanged input updated a row and left the store as it was
C2_Witness ==
  /\ UnchangedRerun /\ run = 2
  /\ store # {} /\ store = prevStore
  /\ \E i \in 1..Len(outcome) : outcome[i] = "updated"

EditedRerun == stage = "done" /\ run >= 2 /\ changed # 0

\* C3 as stated: after one record changed, only the row of its url differs
\* from before the run and the number of rows is the same.
C3_AsStated ==
  EditedRerun =>
    /\ \A u \in Urls \ {raw[changed].event_url} : RowsWithUrl(store, u) = RowsWithUrl(prevStore, u)
    /\ Cardinality(store) = Cardinality(prevStore)

\* the edited raw record shares no dedup anchor with another raw record
EditedStandsAlone ==
  \A i \in 1..Len(raw) :
    i # changed =>
      /\ raw[i].event_url # raw[changed].event_url
      /\ EventKey(raw[i]) # EventKey(raw[changed])

\* C3 (amended): after one record changed (its url unchanged) that shares no
\* dedup anchor with another record, the run leaves unchanged the row of every
\* other url whose MasterRecord the previous run loaded, and removes no row;
\* when the previous run loaded every MasterRecord, only the row of the
\* changed record's url can differ and the number of rows is the same.
C3_OnlyChangedRow ==
  (EditedRerun /\ EditedStandsAlone) =>
    /\ \A u \in Urls \ {raw[changed].event_url} :
         u \in prevLoaded => RowsWithUrl(store, u) = RowsWithUrl(prevStore, u)
    /\ \A x \in prevStore : \E y \in store : y.id = x.id /\ y.url = x.url
    /\ (\A i \in 1..Len(master) : master[i].event_url \in prevLoaded) =>
         /\ \A u \in Urls \ {raw[changed].event_url} :
              RowsWithUrl(store, u) = RowsWithUrl(prevStore, u)
         /\ Cardinality(store) = Cardinality(prevStore)

\* two rows were loaded, one record was renamed, and the next run rewrote
\* its row only
C3_Witness ==
  /\ EditedRerun /\ EditedStandsAlone /\ run = 2
  /\ Cardinality(prevStore) = 2 /\ Cardinality(store) = 2
  /\ \A i \in 1..Len(master) : master[i].event_url \in prevLoaded
  /\ RowsWithUrl(store, raw[changed].event_url) # RowsWithUrl(prevStore, raw[changed].event_url)

(***************************************************************************)
(* Properties of the Normalizer (SpecNorm).                                *)
(***************************************************************************)
Enhanced == stage = "normalized"

ConfidenceLevels == {"high", "medium", "low"}

\* the raw event carries no venue, address or city
NoVenueInformation(r) ==
  r.venue_name = NoText /\ r.venue_address = NoText /\ r.city = NoText

\* C11: the Normalizer returns one record per raw event, whatever its
\* fields; its address_confidence is one of high, medium, low (never null),
\* and it is low when venue, address and city are all missing.
C11_ConfidenceAlwaysSet ==
  Enhanced =>
    /\ Len(cleaned) = Len(raw)
    /\ \A i \in 1..Len(raw) :
         /\ cleaned[i].address_confidence \in ConfidenceLevels
         /\ cleaned[i].address_confidence # NULL
         /\ NoVenueInformation(raw[i]) => cleaned[i].address_confidence = "low"

\* an event without venue, address and city and with a malformed time
C11_Witness ==
  /\ Enhanced
  /\ NoVenueInformation(raw[1])
  /\ raw[1].start_time = <<"x", ":", "x">>
  /\ cleaned[1].start_time = NULL
  /\ cleaned[1].address_confidence = "low"

\* the words that can reach the composed address of r
ComposedWords(r) ==
  (IF IsValidVenue(r.venue_name) THEN Range(r.venue_name) ELSE {})
    \cup Range(r.venue_address) \cup Range(r.city)

StrongIn(r) == \E w \in ComposedWords(r) : w \in StreetNumbers \cup PostalCodes

NounIn(r) == \E w \in ComposedWords(r) : Lower(w) \in LocationWords

\* the composed address is nothing but the city name (or nothing at all)
CityNameOnly(r) == \A w \in ComposedWords(r) \ {","} : Lower(w) \in Range(LowerText(r.city))

\* exactly one of three conditions holds
ExactlyOne(a, b, c) == (a /\ ~b /\ ~c) \/ (~a /\ b /\ ~c) \/ (~a /\ ~b /\ c)

Occurrences(t, w) == Cardinality({i \in 1..Len(t) : t[i] = w})

\* C13: "Microsoft India Office" / "One Microsoft, Outer Ring Road,
\* Devarabeesanahalli" / "Bangalore" resolves to the three parts joined, the
\* city present once, with confidence high; "Learn Data Science Workshop" /
\* "Bangalore" / "Bangalore" is rejected as a venue and resolves to
\* "Bangalore" with confidence low.
C13_DocumentedExamples ==
  Enhanced =>
    \A i \in 1..Len(raw) :
      /\ ( /\ raw[i].venue_name = MicrosoftVenue
           /\ raw[i].venue_address = MicrosoftAddress
           /\ raw[i].city = Bangalore ) =>
           /\ cleaned[i].resolved_venue_address =
                MicrosoftVenue \o <<",">> \o MicrosoftAddress \o <<",">> \o Bangalore
           /\ Occurrences(cleaned[i].resolved_venue_address, "Bangalore") = 1
           /\ cleaned[i].address_confidence = "high"
      /\ ( /\ raw[i].venue_name = WorkshopVenue
           /\ raw[i].venue_address = Bangalore
           /\ raw[i].city = Bangalore ) =>
           /\ ~IsValidVenue(raw[i].venue_name)
           /\ cleaned[i].resolved_venue_address = Bangalore
           /\ cleaned[i].address_confidence = "low"

\* the file with the two documented examples was enhanced
C13_Witness ==
  /\ Enhanced
  /\ raw = <<MicrosoftEvent, WorkshopEvent>>
  /\ cleaned[1].address_confidence = "high"
  /\ cleaned[2].address_confidence = "low"

\* every zero-padded 24-hour "HH:MM" string
ClockStrings ==
  { DigitChar(h \div 10) \o DigitChar(h % 10) \o ":" \o DigitChar(m \div 10) \o DigitChar(m % 10) :
      h \in 0..23, m \in 0..59 }

\* the documented time strings and their results
TimeExample(t) ==
  CASE t = <<"5", " ", "P", "M">> -> "17:00"
    [] t = <<"5", ":", "3", "0", " ", "p", "m">> -> "17:30"
    [] t = <<"9", "a", "m">> -> "09:00"
    [] OTHER -> NULL

\* C18: for every time string the Normalizer returns a zero-padded 24-hour
\* "HH:MM" string or null; "5 PM" gives "17:00", "5:30 pm" gives "17:30",
\* "9am" gives "09:00"; with the suffix "onwards" the result is that of the
\* string without it; whatever the time string, the record is returned with
\* the same resolved address and confidence.
C18_TimeNormalization ==
  Enhanced =>
    /\ Len(cleaned) = Len(raw)
    /\ \A i \in 1..Len(raw) :
         /\ cleaned[i].start_time \in ClockStrings \cup {NULL}
         /\ TimeExample(raw[i].start_time) # NULL =>
              cleaned[i].start_time = TimeExample(raw[i].start_time)
         /\ \A t \in TimeCatalog :
              raw[i].start_time = t \o <<" ">> \o Onwards =>
                cleaned[i].start_time = EnhanceRecord([raw[i] EXCEPT !.start_time = t]).start_time
         /\ \A t \in TimeCatalog :
              LET other == EnhanceRecord([raw[i] EXCEPT !.start_time = t])
              IN /\ other.resolved_venue_address = cleaned[i].resolved_venue_address
                 /\ other.address_confidence = cleaned[i].address_confidence

\* "9am onwards" was normalized to "09:00" in a record with a resolved address
C18_Witness ==
  /\ Enhanced
  /\ raw[1].start_time = <<"9", "a", "m", " ", "o", "n", "w", "a", "r", "d", "s">>
  /\ cleaned[1].start_time = "09:00"
  /\ cleaned[1].address_confidence = "high"

\* "noon onwards" was left without a time in a record with a resolved address
C18_WitnessUnparseable ==
  /\ Enhanced
  /\ raw[1].start_time = <<"n", "o", "o", "n", " ", "o", "n", "w", "a", "r", "d", "s">>
  /\ cleaned[1].start_time = NULL
  /\ cleaned[1].address_confidence = "high"

(***************************************************************************)
(* Properties of the geocode cache, the store's rows, the order of the     *)
(* stages and an interrupted load (Spec).                                  *)
(***************************************************************************)
\* the Loader is about to resolve the coordinates of the record at pos
AtGeocode == Loading /\ step = "geocode"

\* this step calls the geocoder: an answer, a retry or a give-up
GeocoderCalled ==
  /\ AtGeocode
  /\ \/ attempts' = attempts + 1
     \/ outcome' # outcome

\* this step is a successful lookup by the geocoder
LookupSucceeded == AtGeocode /\ step' = "upsert" /\ attempts' = attempts + 1

\* C14: the cache is empty when a Loader run starts; within a run its
\* entries stay as they are; the geocoder is called only for an address that
\* is not in the cache, and a successful lookup puts the address in the
\* cache, so it is never called again for that address in the run; a record
\* whose address is in the cache receives the cached coordinates.
C14_GeocodeCache ==
  [][ /\ (stage # "loading" /\ stage' = "loading") => cache' = EmptyCache
      /\ (stage = "loading" /\ stage' = "loading") =>
           \A a \in DOMAIN cache : a \in DOMAIN cache' /\ cache'[a] = cache[a]
      /\ GeocoderCalled => Current.resolved_venue_address \notin DOMAIN cache
      /\ LookupSucceeded =>
           /\ Current.resolved_venue_address \in DOMAIN cache'
           /\ cache'[Current.resolved_venue_address] = coords'
      /\ (AtGeocode /\ Current.resolved_venue_address \in DOMAIN cache) =>
           /\ ~GeocoderCalled
           /\ coords' = cache[Current.resolved_venue_address]
           /\ step' = "upsert"
    ]_vars

\* the second record of a run got the coordinates the first one had looked up
C14_Witness ==
  /\ Loading /\ pos = 2 /\ step = "upsert" /\ attempts = 0
  /\ master[1].resolved_venue_address = master[2].resolved_venue_address
  /\ master[1].event_url # master[2].event_url
  /\ coords = cache[master[2].resolved_venue_address]
  /\ outcome[1] = "inserted"

\* C15: every row of the store has a name and numeric lat and long; when a
\* run has finished, a MasterRecord without a name or with an address the
\* geocoder cannot resolve was not written: it is counted as skipped or
\* failed and the row of its url is as it was before the run.
C15_RequiredColumns ==
  /\ \A x \in store : x.name # NULL /\ x.lat \in Int /\ x.long \in Int
  /\ stage = "done" =>
       \A i \in 1..Len(master) :
         (master[i].event_name = NULL \/ ~Geocodable(master[i].resolved_venue_address)) =>
           /\ outcome[i] \in {"skipped", "failed"}
           /\ RowsWithUrl(store, master[i].event_url) =
                RowsWithUrl(prevStore, master[i].event_url)

\* a run in which a geocoded record without a name was refused by the store
\* and the other record was written
C15_Witness ==
  /\ stage = "done" /\ Len(master) = 2
  /\ \E i, j \in 1..2 :
       /\ master[i].event_name = NULL
       /\ Geocodable(master[i].resolved_venue_address)
       /\ outcome[i] = "failed"
       /\ RowsWithUrl(store, master[i].event_url) = {}
       /\ outcome[j] = "inserted"
  /\ Cardinality(store) = 1

\* the cleaned files hold the Normalizer's output for every raw record of this run
AllNormalized == Len(cleaned) = Len(raw) /\ cleaned = NormalizeAll(raw)

\* the master file holds the complete MasterSet of this run
MasterSetComplete == AllNormalized /\ master = Consolidate(cleaned)

\* this step is a geocoder call, a cache lookup or a store write of the Loader
LoaderActs ==
  \/ GeocoderCalled
  \/ coords' # coords /\ coords' # NoCoords
  \/ store' # store
  \/ outcome' # outcome /\ outcome' # <<>>

\* C16: in every run the Consolidator writes the MasterSet only when the
\* Normalizer has processed every raw record of the run, and the Loader makes
\* a geocode call or a store write only when the MasterSet of the run is
\* complete.
C16_StagePrecedence ==
  [][ /\ (master' # master \/ (stage' = "consolidated" /\ stage # "consolidated")) =>
           stage = "normalized" /\ AllNormalized
      /\ (stage' = "loading" /\ stage # "loading") => stage = "consolidated" /\ MasterSetComplete
      /\ LoaderActs => stage = "loading" /\ MasterSetComplete
    ]_vars

\* in a second run on edited input the Loader has written the new MasterSet
C16_Witness ==
  /\ run = 2 /\ changed # 0 /\ stage = "loading"
  /\ MasterSetComplete
  /\ Len(outcome) >= 1 /\ store # prevStore

(***************************************************************************)
(* Properties of a cancelled load (SpecCancel).                            *)
(***************************************************************************)
\* the Loader can write m: the geocoder resolves its address, the store
\* accepts its columns
Loadable(m) ==
  /\ Geocodable(m.resolved_venue_address)
  /\ SatisfiesNotNull(StoredFields(m, GeoCoord(m.resolved_venue_address)))

\* the store after a complete load of ms in which nothing that can be
\* written fails
RECURSIVE LoadAll(_, _, _)
LoadAll(rows, id, ms) ==
  IF ms = <<>> THEN rows
  ELSE LET m == Head(ms)
           f == StoredFields(m, GeoCoord(m.resolved_venue_address))
       IN IF ~Loadable(m) THEN LoadAll(rows, id, Tail(ms))
          ELSE LoadAll(UpsertRows(rows, id, f),
                       IF RowsWithUrl(rows, f.url) = {} THEN id + 1 ELSE id,
                       Tail(ms))

\* the rows without their store-assigned id
StoreContent(rows) == UNION {Content(rows, u) : u \in Urls}

\* the row x is as before the run, or as the complete run writes it
RowBeforeOrAfter(x) ==
  \/ x \in prevStore
  \/ /\ \E i \in 1..Len(master) :
          /\ master[i].event_url = x.url
          /\ Content({x}, x.url) =
               {StoredFields(master[i], GeoCoord(master[i].resolved_venue_address))}
     /\ \A y \in prevStore : y.url = x.url => y.id = x.id

\* the Loader was cancelled at least once and its last start ran to the end
\* and wrote every record that can be written
CompletedAfterCancel ==
  /\ stage = "done" /\ run >= 2
  /\ \A i \in 1..Len(master) : Loadable(master[i]) => outcome[i] \in {"inserted", "updated"}

\* C17: at every point at which a Loader run can be cancelled, also in a run
\* started again after a cancellation, no two rows share a url and every row
\* is as it was before the run or as the complete run writes it; when a later
\* start runs to the end and writes every record that can be written, the
\* store holds the rows an uninterrupted complete load of the same MasterSet
\* leaves (rows compared without the store-assigned id).
C17_CancellationSafety ==
  /\ StoreUrlUnique
  /\ \A x \in store : RowBeforeOrAfter(x)
  /\ CompletedAfterCancel =>
       StoreContent(store) = StoreContent(LoadAll(prevStore, Cardinality(prevStore) + 1, master))

\* the Loader was cancelled after its first upsert; started again, it updated
\* that row and inserted the row of the second record
C17_Witness ==
  /\ CompletedAfterCancel /\ run = 2
  /\ Len(master) = 2 /\ outcome = <<"updated", "inserted">>
  /\ prevStore = {}
  /\ Cardinality(store) = 2

(***************************************************************************)
(* Properties of the map frontend (SpecMap).                               *)
(***************************************************************************)
\* this step sends a get-event-details request for e
RequestSent(e) == inFlight'[e] > inFlight[e]

\* this step handles a response for e
ResponseHandled(e) == inFlight'[e] < inFlight[e]

\* C19: a get-event-details request is sent only for an event whose details
\* are not in the cache; a successful response puts them there and they stay,
\* so a later click on that event sends no request and the popup shows the
\* cached details; a failed response leaves the cache as it was.
C19_DetailsCache ==
  [][ /\ \A e \in EventIds : RequestSent(e) => ~Cached(e)
      /\ \A e \in DOMAIN eventDetailsCache :
           e \in DOMAIN eventDetailsCache' /\ eventDetailsCache'[e] = eventDetailsCache[e]
      /\ \A e \in EventIds :
           (ResponseHandled(e) /\ lastResponse' = <<e, "ok">>) =>
             e \in DOMAIN eventDetailsCache' /\ eventDetailsCache'[e] = Details(e)
      /\ \A e \in EventIds :
           (ResponseHandled(e) /\ lastResponse' = <<e, "failed">>) =>
             eventDetailsCache' = eventDetailsCache
      /\ \A e \in EventIds :
           (Cached(e) /\ selectedEventId' = e) =>
             /\ ~RequestSent(e)
             /\ selectedEventDetails' = eventDetailsCache[e]
             /\ PopupContent' = "details"
    ]_vars

\* event 1 was fetched, its popup closed, and its marker clicked again: the
\* popup shows the cached details and nothing is in flight
C19_Witness ==
  /\ selectedEventId = 1 /\ Cached(1)
  /\ lastResponse = <<1, "ok">>
  /\ isLoadingDetails
  /\ Pending = 0
  /\ PopupContent = "details"

\* C20: whenever the details request of the selected event is in flight and
\* its details are not cached, isLoadingDetails is true and the popup shows
\* the loading indicator, not "Failed to load event details".
C20_LoadingWhileInFlight ==
  ( /\ selectedEventId # NoSelection
    /\ inFlight[selectedEventId] > 0
    /\ ~Cached(selectedEventId) ) =>
      /\ isLoadingDetails
      /\ PopupContent = "loading"

\* C21: a click on the marker whose popup is open closes the popup
\* (selectedEventId becomes null); a click on another marker selects that
\* marker, so that one popup at most is open.
C21_ClickSelectedCloses ==
  [][ \A e \in EventIds :
        MarkerClick(e) =>
          IF selectedEventId = e
          THEN selectedEventId' = NoSelection
          ELSE selectedEventId' = e ]_vars

\* a response of get-event-details is handled in this step
ResponseStep == \E e \in EventIds : ResponseOk(e) \/ ResponseFailed(e)

\* C23: the details handed to the popup are absent or the record cached for
\* the selected event id; handling a response never changes selectedEventId,
\* and a response for another event than the selected one leaves the
\* popup's details as they were.
C23_DetailsOfSelected ==
  [][ /\ selectedEventDetails' \in {NoDetails, Details(selectedEventId')}
      /\ selectedEventId' = NoSelection => selectedEventDetails' = NoDetails
      /\ ResponseStep => selectedEventId' = selectedEventId
      /\ \A a \in EventIds :
           (ResponseOk(a) \/ ResponseFailed(a)) /\ selectedEventId # a =>
              selectedEventDetails' = selectedEventDetails ]_vars

\* the response for event a was cached while another event b is selected
\* and b's details are still missing; the popup of b shows none
C23_Witness ==
  \E a, b \in EventIds :
    /\ a # b
    /\ selectedEventId = b
    /\ lastResponse = <<a, "ok">>
    /\ Cached(a)
    /\ ~Cached(b)
    /\ selectedEventDetails = NoDetails

\* C24: whenever no get-event-details request is outstanding,
\* isLoadingDetails is false.
C24_IdleNotLoading == Pending = 0 => ~isLoadingDetails

(***************************************************************************)
(* Properties of the navbar animation (SpecNav).                           *)
(***************************************************************************)
\* C22: in every reachable state with isMapMoving true at least one of the
\* minimize, expand and fallback timers is pending, so that the navbar
\* returns when no further start event arrives.
C22_NavbarReturns == isMapMoving => navTimers # {}

(***************************************************************************)
(* Properties of the map bounds and the filters (SpecBounds, SpecFilter).  *)
(***************************************************************************)
\* this step calls updateBounds
UpdateBoundsCalled ==
  \/ InitialBounds
  \/ DragTimerFires
  \/ ZoomTimerFires
  \/ hasInitialLoadRef /\ SearchOk(SomeFilters, AllEvents)
  \/ hasInitialLoadRef /\ activeFilters # NoFilters /\ ClearFilters

\* this step calls fetchEvents
FetchEventsCalled == eventsRequests' > eventsRequests

\* C25: the first updateBounds call schedules nothing; every later call
\* leaves exactly one debounce timer pending, carrying the bounds of that
\* call, so one timer at most is pending; fetchEvents is called once, by
\* the callback of that timer, on the bounds of the last updateBounds call
\* and only if their north or east edge is more than 0.02 away from the
\* last refresh bounds.
C25_DebouncedRefresh ==
  [][ /\ Cardinality(DebounceTimers(viewTimers')) <= 1
      /\ \A t \in DebounceTimers(viewTimers') : t.bounds = mapBoundsRef'
      /\ UpdateBoundsCalled =>
           /\ mapBoundsRef' = mapView
           /\ ~FetchEventsCalled
           /\ IF hasInitialLoadRef
              THEN \E t \in viewTimers' :
                     /\ DebounceTimers(viewTimers') = {t}
                     /\ t.bounds = mapView
              ELSE /\ hasInitialLoadRef'
                   /\ DebounceTimers(viewTimers') = {}
      /\ FetchEventsCalled =>
           /\ eventsRequests' = eventsRequests + 1
           /\ lastRefreshBoundsRef # NoBounds
           /\ \E t \in DebounceTimers(viewTimers) :
                /\ t \notin viewTimers'
                /\ DebounceTimers(viewTimers') = {}
                /\ t.bounds = mapBoundsRef
                /\ lastRefreshBoundsRef' = t.bounds
                /\ \/ Abs(North(t.bounds) - North(lastRefreshBoundsRef)) > RefreshThreshold
                   \/ Abs(East(t.bounds) - East(lastRefreshBoundsRef)) > RefreshThreshold
    ]_vars

\* after a burst of updateBounds calls the debounce timer fired once and
\* called fetchEvents for the bounds of the last call
C25_Witness ==
  /\ hasInitialLoadRef
  /\ events = AllEvents
  /\ eventsRequests = 1
  /\ isLoadingEvents
  /\ activeFilters = NoFilters
  /\ searchRequests = {}
  /\ viewTimers = {}
  /\ lastRefreshBoundsRef = mapBoundsRef
  /\ lastRefreshBoundsRef # DefaultView

C27_MarkersAreFiltered ==
  ~isLoadingEvents =>
     IF activeFilters # NoFilters
     THEN /\ Markers = filteredEvents
          /\ StatusBarShown
          /\ Cardinality(Markers) = StatusBarCount
     ELSE Markers = events

====
